---- MODULE Spec2Model ----
(***************************************************************************)
(* Workflow engine of coze-studio: the draft/version lifecycle of the      *)
(* workflow domain service (service_impl.go), the canvas compiler          *)
(* (adaptor part of canvas.go) and the schema model (workflow_schema.go).  *)
(*                                                                         *)
(* Strings the code parses or formats (version strings, workflow ids in a  *)
(* canvas, commit ids, ports) are sequences of one-character strings, so   *)
(* that parsing and formatting are computed and can fail.                  *)
(***************************************************************************)
EXTENDS Integers, Sequences, FiniteSets, TLC

(***************************************************************************)
(* Bounds of the model.                                                    *)
(***************************************************************************)
\* ids the id generator hands out (workflow ids and commit ids)
MaxID == 5
\* version records per workflow
MaxVersions == 2

\* the callers of Publish that run at the same time
MaxPublishing == 2

\* the last id of a workflow of the app in the copy lifecycle
MaxSourceID == 6

\* the last id the id generator hands out to a copy into the library
MaxCopyID == 12

(***************************************************************************)
(* strconv: decimal formatting and parsing.                                *)
(***************************************************************************)
DigitChars == <<"0", "1", "2", "3", "4", "5", "6", "7", "8", "9">>

\* the value of each decimal digit
DigitValues ==
    [ch \in {DigitChars[i] : i \in 1..10} |-> (CHOOSE i \in 1..10 : DigitChars[i] = ch) - 1]

\* strconv.FormatInt(n, 10) of a non-negative n
RECURSIVE FormatInt(_)
FormatInt(n) ==
    IF n < 10 THEN <<DigitChars[n + 1]>>
    ELSE FormatInt(n \div 10) \o <<DigitChars[(n % 10) + 1]>>

\* the value of a sequence of digits, or -1 when one of them is no digit
RECURSIVE DigitsValue(_, _)
DigitsValue(s, acc) ==
    IF Len(s) = 0 THEN acc
    ELSE IF Head(s) \notin DOMAIN DigitValues THEN -1
    ELSE DigitsValue(Tail(s), 10 * acc + DigitValues[Head(s)])

\* strconv.ParseInt(s, 10, 64) on the non-negative decimal strings of the model:
\* the empty string and any non-digit are errors.
ParseInt(s) ==
    LET result(val) == IF val >= 0 THEN [ok |-> TRUE, val |-> val]
                       ELSE [ok |-> FALSE, val |-> 0]
    IN result(IF Len(s) = 0 THEN -1 ELSE DigitsValue(s, 0))

(***************************************************************************)
(* Version strings vA.B.C.                                                 *)
(***************************************************************************)
\* strings.Split(s, "."): the parts of s between the dots
RECURSIVE SplitDots(_, _, _)
SplitDots(s, cur, acc) ==
    IF Len(s) = 0 THEN Append(acc, cur)
    ELSE IF Head(s) = "." THEN SplitDots(Tail(s), <<>>, Append(acc, cur))
    ELSE SplitDots(Tail(s), Append(cur, Head(s)), acc)

\* parseVersion: "v", then three non-negative integers between dots
parseVersion(versionString) ==
    LET bad == [ok |-> FALSE, major |-> 0, minor |-> 0, patch |-> 0]
        numbers(major, minor, patch) ==
            IF ~major.ok \/ ~minor.ok \/ ~patch.ok THEN bad
            ELSE [ok |-> TRUE, major |-> major.val, minor |-> minor.val, patch |-> patch.val]
        split(parts) ==
            IF Len(parts) # 3 THEN bad
            ELSE numbers(ParseInt(parts[1]), ParseInt(parts[2]), ParseInt(parts[3]))
    IN IF Len(versionString) = 0 \/ Head(versionString) # "v" THEN bad
       ELSE split(SplitDots(Tail(versionString), <<>>, <<>>))

\* isIncremental: next is strictly greater than prev, major first
isIncremental(prev, next) ==
    \/ next.major > prev.major
    \/ next.major = prev.major /\ next.minor > prev.minor
    \/ next.major = prev.major /\ next.minor = prev.minor /\ next.patch > prev.patch

(***************************************************************************)
(* The canvas (vo.Canvas, vo.Node, vo.Edge).  A canvas JSON string is a    *)
(* record that is either not valid JSON or carries the canvas.             *)
(***************************************************************************)
EntryNodeKey == "100001"

ExitNodeKey == "900001"

NodeTypeEntry == "Entry"

NodeTypeExit == "Exit"

NodeTypeLLM == "LLM"

NodeTypeSubWorkflow == "SubWorkflow"

NodeTypeLoop == "Loop"

NodeTypeBreak == "Break"

NodeTypeContinue == "Continue"

NodeTypeSelector == "Selector"

NodeTypeCodeRunner == "CodeRunner"

NodeTypeComment == "Comment"

NodeTypeConversationHistory == "ConversationHistory"

NodeTypeBatch == "Batch"

\* the node types checkBotAgentNode rejects
ConversationNodeTypes ==
    {"CreateConversation", "ConversationDelete", "ConversationUpdate", "ConversationList"}

\* the node types that have a registered adaptor
AdaptedNodeTypes ==
    {NodeTypeEntry, NodeTypeExit, NodeTypeLLM, NodeTypeLoop, NodeTypeBatch, NodeTypeBreak,
     NodeTypeContinue, NodeTypeSelector, NodeTypeCodeRunner, NodeTypeConversationHistory}
    \cup ConversationNodeTypes

blockTypeToSkip == {NodeTypeComment}

UserInputKey == "USER_INPUT"

ConversationNameKey == "CONVERSATION_NAME"

ErrorProcessTypeThrow == 1

ErrorProcessTypeReturnDefaultData == 2

\* vo.SettingOnError; processType 0 is the nil pointer
SettingOnError(switch, processType, dataOnErr) ==
    [has |-> TRUE, switch |-> switch, processType |-> processType, dataOnErr |-> dataOnErr,
     timeoutMs |-> 0, retryTimes |-> 0]

\* the nil *vo.SettingOnError
NoSettingOnError ==
    [has |-> FALSE, switch |-> FALSE, processType |-> 0, dataOnErr |-> <<>>,
     timeoutMs |-> 0, retryTimes |-> 0]

\* Data.Inputs.NodeBatchInfo; a nil NodeBatchInfo is one that is not enabled
NodeBatchInfo(batchEnable, inputLists) == [batchEnable |-> batchEnable, inputLists |-> inputLists]

\* vo.VariableTypeList, vo.VariableTypeObject, vo.VariableTypeString
VariableTypeList == "list"

VariableTypeObject == "object"

VariableTypeString == "string"

\* what vo.ParseVariable reads in Data.Outputs[0] besides its name: the type, and
\* for a list the type of the elements and the names of the fields of an object element
Variable(type, elementType, fields) == [type |-> type, elementType |-> elementType, fields |-> fields]

\* vo.Node: Data.Meta.Title, Data.Outputs (the names, outputVariable for the
\* first one), Data.Inputs.InputParameters, Data.Inputs.SubWorkflow,
\* Data.Inputs.FCParam.WorkflowFCParam.WorkflowList, Data.Inputs.SettingOnError,
\* Data.Inputs.NodeBatchInfo; outputRefs holds the block id of every output that
\* is a reference to a block output
Node(id, type, title) ==
    [id |-> id, type |-> type, title |-> title,
     outputs |-> <<>>, inputParameters |-> <<>>,
     workflowID |-> <<>>, workflowVersion |-> <<>>,
     workflowList |-> <<>>,
     settingOnError |-> NoSettingOnError,
     nodeBatchInfo |-> NodeBatchInfo(FALSE, <<>>),
     outputVariable |-> Variable(VariableTypeString, "", <<>>),
     outputRefs |-> <<>>,
     blocks |-> <<>>, edges |-> <<>>]

Edge(source, target, sourcePort, targetPort) ==
    [sourceNodeID |-> source, targetNodeID |-> target,
     sourcePortID |-> sourcePort, targetPortID |-> targetPort]

Canvas(nodes, edges) == [nodes |-> nodes, edges |-> edges]

InvalidJSON == [valid |-> FALSE, nodes |-> <<>>, edges |-> <<>>]

\* sonic.MarshalString of a canvas
MarshalString(canvas) == [valid |-> TRUE, nodes |-> canvas.nodes, edges |-> canvas.edges]

\* sonic.UnmarshalString into a vo.Canvas: an error leaves the zero canvas
UnmarshalString(str) ==
    IF str.valid
    THEN [ok |-> TRUE, canvas |-> Canvas(str.nodes, str.edges)]
    ELSE [ok |-> FALSE, canvas |-> Canvas(<<>>, <<>>)]

(***************************************************************************)
(* canvasToRefs: the reference edges of a canvas.                          *)
(***************************************************************************)
ReferTypeSubWorkflow == "SubWorkflow"

ReferTypeTool == "Tool"

WorkflowReferenceKey(referringID, referredID, referType) ==
    [referringID |-> referringID, referredID |-> referredID, referType |-> referType]

NoRefs == [ok |-> FALSE, refs |-> {}]

\* the LLM case of getRefFn: one Tool edge per workflow of the function-call list,
\* an error at the first id that does not parse
RECURSIVE llmToolRefs(_, _, _)
llmToolRefs(referringID, workflowList, acc) ==
    LET add(p) ==
            IF ~p.ok THEN NoRefs
            ELSE llmToolRefs(referringID, Tail(workflowList),
                     acc \cup {WorkflowReferenceKey(referringID, p.val, ReferTypeTool)})
    IN IF Len(workflowList) = 0 THEN [ok |-> TRUE, refs |-> acc]
       ELSE add(ParseInt(Head(workflowList).workflowID))

\* a faulty switch that passes over the workflow tools of an LLM node
nodeRefsNoTools(referringID, node) ==
    IF node.type # NodeTypeSubWorkflow THEN [ok |-> TRUE, refs |-> {}]
    ELSE IF ~ParseInt(node.workflowID).ok THEN NoRefs
    ELSE [ok |-> TRUE,
          refs |-> {WorkflowReferenceKey(referringID, ParseInt(node.workflowID).val,
                                         ReferTypeSubWorkflow)}]

\* the switch of getRefFn on the type of one node
nodeRefs(referringID, node) ==
    LET sub(p) ==
            IF ~p.ok THEN NoRefs
            ELSE [ok |-> TRUE,
                  refs |-> {WorkflowReferenceKey(referringID, p.val, ReferTypeSubWorkflow)}]
    IN IF node.type = NodeTypeSubWorkflow THEN sub(ParseInt(node.workflowID))
       ELSE IF node.type = NodeTypeLLM THEN llmToolRefs(referringID, node.workflowList, {})
       ELSE [ok |-> TRUE, refs |-> {}]

\* a faulty getRefFn that does not descend into the blocks of a node
RECURSIVE getRefFnFlat(_, _, _)
getRefFnFlat(referringID, nodes, acc) ==
    LET rest(own) ==
            IF ~own.ok THEN NoRefs
            ELSE getRefFnFlat(referringID, Tail(nodes), acc \cup own.refs)
    IN IF Len(nodes) = 0 THEN [ok |-> TRUE, refs |-> acc]
       ELSE rest(nodeRefs(referringID, Head(nodes)))

\* getRefFn: walks the nodes in order, a node before its blocks
RECURSIVE getRefFn(_, _, _)
getRefFn(referringID, nodes, acc) ==
    LET rest(sub) ==
            IF ~sub.ok THEN NoRefs ELSE getRefFn(referringID, Tail(nodes), sub.refs)
        blocks(own) ==
            IF ~own.ok THEN NoRefs
            ELSE rest(getRefFn(referringID, Head(nodes).blocks, acc \cup own.refs))
    IN IF Len(nodes) = 0 THEN [ok |-> TRUE, refs |-> acc]
       ELSE blocks(nodeRefs(referringID, Head(nodes)))

canvasToRefs(referringID, canvasStr) ==
    LET refs(u) == IF ~u.ok THEN NoRefs ELSE getRefFn(referringID, u.canvas.nodes, {})
    IN refs(UnmarshalString(canvasStr))

(***************************************************************************)
(* State of the repository behind the domain service.                      *)
(***************************************************************************)
VARIABLES
    nextID,        \* the id generator: the next id it hands out
    meta,          \* workflow id -> workflow meta
    draft,         \* workflow id -> draft (absent while a workflow has none)
    versions,      \* workflow id -> version records, in creation order
    references,    \* the reference-edge table
    connectorVersions, \* the connector bindings: <<app, connector, workflow, version>>
    commitIDs,     \* workflow id -> every commit id a draft of it has carried
    lastOp,        \* the last call of the service and its result
    publishing,    \* the Publish calls between their checks and their write
    wfSchema,      \* a workflow schema under construction
    otherSchema,   \* the schema it is compared with
    pruneInput,    \* the nodes and edges handed to PruneIsolatedNodes
    pruneOutput    \* what PruneIsolatedNodes returned for them

vars == <<nextID, meta, draft, versions, references, connectorVersions, commitIDs, lastOp,
          publishing, wfSchema, otherSchema,
          pruneInput, pruneOutput>>

WorkflowIDs == DOMAIN meta

\* a faulty lookup that finds no version record
versionExistsNever(vs, version) == FALSE

\* repo.CreateVersion fails on an existing (workflow id, version string)
versionExists(vs, version) == \E i \in 1..Len(vs) : vs[i].version = version

\* repo.GetVersion: the version record of a workflow with that version string
GetVersion(id, version) ==
    IF id \in WorkflowIDs /\ versionExists(versions[id], version)
    THEN [existed |-> TRUE,
          info |-> versions[id][CHOOSE i \in 1..Len(versions[id]) : versions[id][i].version = version]]
    ELSE [existed |-> FALSE, info |-> <<>>]

\* entity.Workflow.GetBasic: identity, version and commit id of a loaded workflow
WorkflowBasic(id, version, commitID) ==
    [has |-> TRUE, id |-> id, version |-> version, commitID |-> commitID]

NoWorkflowBasic == [has |-> FALSE, id |-> 0, version |-> <<>>, commitID |-> <<>>]

\* repo.GetEntity: the draft when no version is asked for, else that version
GetEntity(id, version) ==
    LET none == [ok |-> FALSE, canvas |-> InvalidJSON, basic |-> NoWorkflowBasic]
        ofVersion(v) ==
            IF v.existed
            THEN [ok |-> TRUE, canvas |-> v.info.canvas,
                  basic |-> WorkflowBasic(id, version, v.info.commitID)]
            ELSE none
    IN IF Len(version) > 0 THEN ofVersion(GetVersion(id, version))
       ELSE IF id \in DOMAIN draft
       THEN [ok |-> TRUE, canvas |-> draft[id].canvas,
             basic |-> WorkflowBasic(id, <<>>, draft[id].commitID)]
       ELSE none

(***************************************************************************)
(* The canvas compiler: CanvasToWorkflowSchema and its steps.              *)
(***************************************************************************)
END == "end"

PortTrue == <<"t", "r", "u", "e">>

PortFalse == <<"f", "a", "l", "s", "e">>

PortTruePrefix == <<"t", "r", "u", "e", "_">>

PortDefault == <<"d", "e", "f", "a", "u", "l", "t">>

PortBranchPrefix == <<"b", "r", "a", "n", "c", "h", "_">>

\* the output ports of loop and batch nodes, which normalizePorts clears:
\* loop-function-inline-output, loop-output, batch-function-inline-output, batch-output
CompositeOutputPorts ==
    {<<"l", "o", "o", "p", "-", "f", "u", "n", "c", "t", "i", "o", "n", "-", "i", "n", "l", "i", "n", "e", "-", "o", "u", "t", "p", "u", "t">>,
     <<"l", "o", "o", "p", "-", "o", "u", "t", "p", "u", "t">>,
     <<"b", "a", "t", "c", "h", "-", "f", "u", "n", "c", "t", "i", "o", "n", "-", "i", "n", "l", "i", "n", "e", "-", "o", "u", "t", "p", "u", "t">>,
     <<"b", "a", "t", "c", "h", "-", "o", "u", "t", "p", "u", "t">>}

\* the inline input ports of loop and batch nodes, which EdgeToConnection turns
\* into END: loop-function-inline-input, batch-function-inline-input
CompositeInlineInputPorts ==
    {<<"l", "o", "o", "p", "-", "f", "u", "n", "c", "t", "i", "o", "n", "-", "i", "n", "l", "i", "n", "e", "-", "i", "n", "p", "u", "t">>,
     <<"b", "a", "t", "c", "h", "-", "f", "u", "n", "c", "t", "i", "o", "n", "-", "i", "n", "l", "i", "n", "e", "-", "i", "n", "p", "u", "t">>}

SeqToSet(s) == {s[i] : i \in 1..Len(s)}

\* a faulty pruning that leaves the blocks of composite nodes as they are
PruneIsolatedNodesFlat(nodes, edges, parentID) ==
    LET nodeIDs == {nodes[i].id : i \in 1..Len(nodes)}
        keys == nodeIDs \cup {EntryNodeKey, ExitNodeKey}
        inbound(k) == Cardinality({i \in 1..Len(edges) : edges[i].targetNodeID = k})
        isolatedNodeIDs == {k \in nodeIDs \ {EntryNodeKey, ExitNodeKey} : inbound(k) = 0}
        KeepNode(n) == n.id \notin isolatedNodeIDs
        KeepEdge(e) == e.sourceNodeID \notin isolatedNodeIDs
    IN IF \E i \in 1..Len(edges) : edges[i].targetNodeID \notin keys
       THEN [panic |-> TRUE, nodes |-> <<>>, edges |-> <<>>]
       ELSE [panic |-> FALSE, nodes |-> SelectSeq(nodes, KeepNode),
             edges |-> SelectSeq(edges, KeepEdge)]

\* PruneIsolatedNodes: result nodes and edges, or the panic of an edge whose
\* target is not a counted node.  parentID is "" for a nil parent.
RECURSIVE PruneIsolatedNodes(_, _, _)
PruneIsolatedNodes(nodes, edges, parentID) ==
    LET nodeIDs == {nodes[i].id : i \in 1..Len(nodes)}
        keys == nodeIDs \cup {EntryNodeKey, ExitNodeKey}
                    \cup (IF parentID # "" THEN {parentID} ELSE {})
        jumps == Cardinality({i \in 1..Len(nodes) :
                                 nodes[i].type \in {NodeTypeContinue, NodeTypeBreak}})
        inbound(k) == Cardinality({i \in 1..Len(edges) : edges[i].targetNodeID = k})
        base(k) == IF k \in {EntryNodeKey, ExitNodeKey} THEN 1
                   ELSE IF k = parentID /\ k \notin nodeIDs THEN jumps
                   ELSE 0
        keep(sub, isolatedNodeIDs) ==
            LET KeepNode(n) == n.id \notin isolatedNodeIDs
                KeepEdge(e) == e.sourceNodeID \notin isolatedNodeIDs
            IN [panic |-> FALSE,
                nodes |-> SelectSeq([i \in 1..Len(nodes) |->
                                        [nodes[i] EXCEPT !.blocks = sub[i].nodes,
                                                         !.edges = sub[i].edges]], KeepNode),
                edges |-> SelectSeq(edges, KeepEdge)]
        result(sub) ==
            IF \E i \in 1..Len(nodes) : sub[i].panic
            THEN [panic |-> TRUE, nodes |-> <<>>, edges |-> <<>>]
            ELSE IF \E i \in 1..Len(edges) : edges[i].targetNodeID \notin keys
            THEN [panic |-> TRUE, nodes |-> <<>>, edges |-> <<>>]
            ELSE keep(sub, {k \in keys : base(k) + inbound(k) = 0})
    IN result([i \in 1..Len(nodes) |->
                  IF Len(nodes[i].blocks) > 0 /\ Len(nodes[i].edges) > 0
                  THEN PruneIsolatedNodes(nodes[i].blocks, nodes[i].edges, nodes[i].id)
                  ELSE [panic |-> FALSE, nodes |-> nodes[i].blocks, edges |-> nodes[i].edges]])

\* schema.Connection; hasPort is FromPort # nil
Connection(fromNode, toNode, hasPort, fromPort) ==
    [fromNode |-> fromNode, toNode |-> toNode, hasPort |-> hasPort, fromPort |-> fromPort]

\* a faulty conversion that sends every edge into an inline input port to END
EdgeToConnectionAnyPort(e) ==
    Connection(e.sourceNodeID,
               IF e.targetPortID \in CompositeInlineInputPorts THEN END ELSE e.targetNodeID,
               e.sourceNodeID # "",
               IF e.sourceNodeID # "" THEN e.sourcePortID ELSE <<>>)

EdgeToConnection(e) ==
    Connection(e.sourceNodeID,
               IF Len(e.sourcePortID) > 0 /\ e.targetPortID \in CompositeInlineInputPorts
               THEN END ELSE e.targetNodeID,
               e.sourceNodeID # "",
               IF e.sourceNodeID # "" THEN e.sourcePortID ELSE <<>>)

HasPrefix(s, prefix) ==
    Len(s) >= Len(prefix) /\ SubSeq(s, 1, Len(prefix)) = prefix

\* a faulty normalisation that leaves every connection as it is
normalizePortKeep(conn, nodeType) == [ok |-> TRUE, conn |-> conn]

\* the port of one connection after normalizePorts; nodeType is "" when the
\* source node is not in the node map
normalizePort(conn, nodeType) ==
    LET to(hasPort, port) ==
            [ok |-> TRUE, conn |-> Connection(conn.fromNode, conn.toNode, hasPort, port)]
        branch(n) ==
            IF ~n.ok THEN [ok |-> FALSE, conn |-> conn]
            ELSE to(TRUE, PortBranchPrefix \o FormatInt(n.val))
    IN IF ~conn.hasPort THEN [ok |-> TRUE, conn |-> conn]
       ELSE IF Len(conn.fromPort) = 0 THEN to(FALSE, <<>>)
       ELSE IF conn.fromPort \in CompositeOutputPorts THEN to(FALSE, <<>>)
       ELSE IF nodeType = "" THEN [ok |-> FALSE, conn |-> conn]
       ELSE IF nodeType # NodeTypeSelector THEN [ok |-> TRUE, conn |-> conn]
       ELSE IF conn.fromPort = PortTrue THEN to(TRUE, PortBranchPrefix \o FormatInt(0))
       ELSE IF conn.fromPort = PortFalse THEN to(TRUE, PortDefault)
       ELSE IF HasPrefix(conn.fromPort, PortTruePrefix)
       THEN branch(ParseInt(SubSeq(conn.fromPort, Len(PortTruePrefix) + 1, Len(conn.fromPort))))
       ELSE to(TRUE, <<>>)

\* normalizePorts over the connections; nodeTypes maps the ids of the node map
\* (the canvas nodes and their blocks) to their types
normalizePorts(connections, nodeTypes) ==
    LET result(res) ==
            IF \E i \in 1..Len(connections) : ~res[i].ok
            THEN [ok |-> FALSE, connections |-> <<>>]
            ELSE [ok |-> TRUE, connections |-> [i \in 1..Len(connections) |-> res[i].conn]]
    IN result([i \in 1..Len(connections) |->
                  normalizePort(connections[i],
                      IF connections[i].fromNode \in DOMAIN nodeTypes
                      THEN nodeTypes[connections[i].fromNode] ELSE "")])

\* schema.NodeSchema: the fields IsEqual reads.  inputs stands for input_types
\* and input_sources, outputs for output_types and output_sources.
\* exceptionConfigs is set by NodeToNodeSchema.
\* inputSources holds one record per input source with the node key of its
\* reference ("" for a source that is no reference); streamConfigs and
\* subWorkflowSchema are nil unless set
NodeSchema(key, type, name, configs, inputs, outputs, subWorkflowBasic) ==
    [key |-> key, type |-> type, name |-> name, configs |-> configs,
     inputs |-> inputs, outputs |-> outputs, subWorkflowBasic |-> subWorkflowBasic,
     exceptionConfigs |-> [has |-> FALSE],
     inputSources |-> <<>>,
     streamConfigs |-> [has |-> FALSE, canGeneratesStream |-> FALSE,
                        requireStreamingInput |-> FALSE],
     subWorkflowSchema |-> [status |-> "nil"]]

\* schema.StreamConfig
StreamConfig(canGeneratesStream, requireStreamingInput) ==
    [has |-> TRUE, canGeneratesStream |-> canGeneratesStream,
     requireStreamingInput |-> requireStreamingInput]

\* what a Configs value answers as a ChatHistoryAware: whether it implements the
\* interface, ChatHistoryEnabled() and ChatHistoryRounds()
ChatHistoryAware(implemented, enabled, rounds) ==
    [implemented |-> implemented, enabled |-> enabled, rounds |-> rounds]

\* what a Configs value answers as a RequireCheckpoint: whether it implements
\* the interface, and RequireCheckpoint()
RequireCheckpoint(implemented, require) == [implemented |-> implemented, require |-> require]

\* the Configs of a node schema: the workflow it refers to and the interfaces it implements
NodeConfigs(workflowID, workflowVersion, workflowList) ==
    [workflowID |-> workflowID, workflowVersion |-> workflowVersion,
     workflowList |-> workflowList,
     chatHistoryAware |-> ChatHistoryAware(FALSE, FALSE, 0),
     requireCheckpoint |-> RequireCheckpoint(FALSE, FALSE)]

\* NodeAdaptor.Adapt of a registered node type: the schema carries the node's
\* key, type, inputs, outputs and type-specific configuration; the title of the
\* node is display metadata and is not part of it
Adapt(n) ==
    NodeSchema(n.id, n.type, n.type, NodeConfigs(0, <<>>, n.workflowList),
               n.inputParameters, n.outputs, NoWorkflowBasic)

\* a compilation result: status "ok" with the schema, "err" for a returned
\* error (a recovered panic included), "panic" for a panic on its way up the
\* stack, "diverge" when the sub-workflow recursion does not end
\* hierarchy is the map from child key to parent key, as its set of pairs
\* once tells whether Init has run; requireCheckPoint, requireStreaming and
\* historyRounds are the fields Init sets
Compiled(status, nodes, connections, hierarchy) ==
    [status |-> status, nodes |-> nodes, connections |-> connections, hierarchy |-> hierarchy,
     generatedNodes |-> <<>>,
     once |-> FALSE, requireCheckPoint |-> FALSE, requireStreaming |-> FALSE,
     historyRounds |-> 0]

\* hierarchy[k] = v for every pair of the map added
setHierarchy(hierarchy, added) ==
    {p \in hierarchy : \A q \in added : q[1] # p[1]} \cup added

Failed(status) == Compiled(status, <<>>, <<>>, {})

(***************************************************************************)
(* WorkflowSchema.Init                                                     *)
(***************************************************************************)
max(a, b) == IF a >= b THEN a ELSE b

\* a faulty search that only looks at the producers themselves
doRequireStreamingNoSearch(w) ==
    \E i, j \in 1..Len(w.nodes) :
        /\ w.nodes[i].key = w.nodes[j].key
        /\ w.nodes[i].streamConfigs.has /\ w.nodes[i].streamConfigs.canGeneratesStream
        /\ w.nodes[j].streamConfigs.has /\ w.nodes[j].streamConfigs.requireStreamingInput

\* doRequireStreaming: the search from the producers along the edges from a
\* referenced node to the node that refers to it, until a consumer is met
doRequireStreaming(w) ==
    LET producers == {w.nodes[i].key : i \in {j \in 1..Len(w.nodes) :
                         w.nodes[j].streamConfigs.has
                            /\ w.nodes[j].streamConfigs.canGeneratesStream}}
        consumers == {w.nodes[i].key : i \in {j \in 1..Len(w.nodes) :
                         w.nodes[j].streamConfigs.has
                            /\ w.nodes[j].streamConfigs.requireStreamingInput}}
        adj(curr) ==
            {w.nodes[i].key : i \in {j \in 1..Len(w.nodes) :
                \E k \in 1..Len(w.nodes[j].inputSources) :
                    /\ w.nodes[j].inputSources[k].fromNodeKey # ""
                    /\ w.nodes[j].inputSources[k].fromNodeKey = curr}}
        RECURSIVE search(_, _)
        search(q, visited) ==
            LET neighbors == UNION {adj(curr) : curr \in q} \ visited
            IN IF q = {} THEN FALSE
               ELSE IF q \cap consumers # {} THEN TRUE
               ELSE search(neighbors, visited \cup neighbors)
    IN IF producers = {} \/ consumers = {} THEN FALSE
       ELSE \E p \in producers : search({p}, {p})

RECURSIVE WorkflowSchemaInit(_)
RECURSIVE initNodes(_, _, _)

\* a faulty loop that does not ask the schemas of the sub-workflow nodes
initNodesOwnOnly(w, i, historyRounds) ==
    LET node == w.nodes[i]
        done(v, rounds) == [v EXCEPT !.historyRounds = rounds]
        configs(v, rounds) ==
            IF node.configs.requireCheckpoint.implemented
                  /\ node.configs.requireCheckpoint.require
            THEN done([v EXCEPT !.requireCheckPoint = TRUE], rounds)
            ELSE initNodes(v, i + 1, rounds)
    IN IF i > Len(w.nodes) THEN done(w, historyRounds)
       ELSE configs(w, historyRounds)

\* the loop of Init over the nodes from the i-th on: it ends at the first node
\* that requires a checkpoint
initNodes(w, i, historyRounds) ==
    LET node == w.nodes[i]
        done(v, rounds) == [v EXCEPT !.historyRounds = rounds]
        configs(v, rounds) ==
            LET aware == node.configs.chatHistoryAware
                withHistory == IF aware.implemented /\ aware.enabled
                               THEN max(rounds, aware.rounds) ELSE rounds
            IN IF node.configs.requireCheckpoint.implemented
                     /\ node.configs.requireCheckpoint.require
               THEN done([v EXCEPT !.requireCheckPoint = TRUE], withHistory)
               ELSE initNodes(v, i + 1, withHistory)
        subWorkflow(sub) ==
            LET v == [w EXCEPT !.nodes[i].subWorkflowSchema = sub]
                rounds == max(historyRounds, sub.historyRounds)
            IN IF sub.requireCheckPoint
               THEN done([v EXCEPT !.requireCheckPoint = TRUE], rounds)
               ELSE configs(v, rounds)
    IN IF i > Len(w.nodes) THEN done(w, historyRounds)
       ELSE IF node.type = NodeTypeSubWorkflow
       THEN subWorkflow(WorkflowSchemaInit(node.subWorkflowSchema))
       ELSE configs(w, historyRounds)

\* WorkflowSchema.Init: once per schema
WorkflowSchemaInit(w) ==
    LET streaming(v) == [v EXCEPT !.requireStreaming = doRequireStreaming(v)]
    IN IF w.once THEN w
       ELSE streaming(initNodes([w EXCEPT !.once = TRUE], 1, 0))

RECURSIVE CanvasToWorkflowSchemaAt(_, _)
RECURSIVE NodeToNodeSchema(_, _)
RECURSIVE childNodeSchemas(_, _, _, _)
RECURSIVE convertNodes(_, _, _)

\* toSubWorkflowNodeSchema: loads the referenced workflow and compiles its canvas.
\* entity.NodeMetaByNodeType(nType).DefaultTimeoutMS, in ms
DefaultTimeoutMS(nType) ==
    IF nType = NodeTypeLLM THEN 180000
    ELSE IF nType = NodeTypeCodeRunner THEN 60000
    ELSE 0

\* schema.ExceptionConfig
ExceptionConfig(timeoutMS, maxRetry, dataOnErr, processType) ==
    [has |-> TRUE, timeoutMS |-> timeoutMS, maxRetry |-> maxRetry,
     dataOnErr |-> dataOnErr, processType |-> processType]

\* a faulty conversion that copies the settings, without default, check and inference
toExceptionConfigCopy(n, nType) ==
    [ok |-> TRUE,
     conf |-> IF ~n.settingOnError.has THEN [has |-> FALSE]
              ELSE ExceptionConfig(n.settingOnError.timeoutMs, n.settingOnError.retryTimes,
                                   n.settingOnError.dataOnErr, n.settingOnError.processType)]

\* toExceptionConfig: the configuration, nil without settings and default
\* timeout, or the error of a ReturnDefaultData setting without data
toExceptionConfig(n, nType) ==
    LET settingOnErr == n.settingOnError
        ok(conf) == [ok |-> TRUE, conf |-> conf]
    IN IF ~settingOnErr.has /\ DefaultTimeoutMS(nType) = 0 THEN ok([has |-> FALSE])
       ELSE IF ~settingOnErr.has
       THEN ok(ExceptionConfig(DefaultTimeoutMS(nType), 0, <<>>, 0))
       ELSE IF /\ settingOnErr.processType = ErrorProcessTypeReturnDefaultData
               /\ Len(settingOnErr.dataOnErr) = 0
       THEN [ok |-> FALSE, conf |-> [has |-> FALSE]]
       ELSE ok(ExceptionConfig(settingOnErr.timeoutMs, settingOnErr.retryTimes,
                               settingOnErr.dataOnErr,
                               IF /\ settingOnErr.processType = 0
                                  /\ Len(settingOnErr.dataOnErr) > 0
                                  /\ settingOnErr.switch
                               THEN ErrorProcessTypeReturnDefaultData
                               ELSE settingOnErr.processType))

\* path holds the (id, version) pairs whose canvases are being compiled: loading
\* one of them again recurses without end.
toSubWorkflowNodeSchema(n, path) ==
    LET schema(p, subWF, subWorkflowSC) ==
            IF subWorkflowSC.status # "ok" THEN Failed(subWorkflowSC.status)
            ELSE Compiled("ok",
                     <<[NodeSchema(n.id, NodeTypeSubWorkflow, n.title,
                                   NodeConfigs(p.val, n.workflowVersion, <<>>),
                                   n.inputParameters, n.outputs, subWF.basic) EXCEPT
                           !.subWorkflowSchema = WorkflowSchemaInit(subWorkflowSC),
                           !.streamConfigs =
                               StreamConfig(WorkflowSchemaInit(subWorkflowSC).requireStreaming,
                                            FALSE)]>>,
                     <<>>, {})
        compile(p, subWF, u) ==
            IF ~u.ok THEN Failed("err")
            ELSE IF <<p.val, n.workflowVersion>> \in path THEN Failed("diverge")
            ELSE schema(p, subWF,
                     CanvasToWorkflowSchemaAt(u.canvas, path \cup {<<p.val, n.workflowVersion>>}))
        load(p, subWF) ==
            IF ~subWF.ok THEN Failed("err")
            ELSE compile(p, subWF, UnmarshalString(subWF.canvas))
        parsed(p) ==
            IF ~p.ok THEN Failed("err") ELSE load(p, GetEntity(p.val, n.workflowVersion))
    IN parsed(ParseInt(n.workflowID))

\* the loop of NodeToNodeSchema over the blocks of a composite node
childNodeSchemas(blocks, parentID, path, acc) ==
    LET add(childNS) ==
            IF childNS.status # "ok" THEN Failed(childNS.status)
            ELSE childNodeSchemas(Tail(blocks), parentID, path,
                     [acc EXCEPT !.nodes = @ \o childNS.nodes,
                                 !.hierarchy = setHierarchy(@, {<<Head(blocks).id, parentID>>})])
    IN IF Len(blocks) = 0 THEN acc
       ELSE add(NodeToNodeSchema(Head(blocks), path))

NodeToNodeSchema(n, path) ==
    LET withParent(all, ns) ==
            IF all.status # "ok" THEN all ELSE [all EXCEPT !.nodes = @ \o <<ns>>]
        subWorkflow(sc, ec) ==
            IF sc.status # "ok" THEN sc
            ELSE IF ~ec.ok THEN Failed("err")
            ELSE [sc EXCEPT !.nodes = <<[sc.nodes[1] EXCEPT !.exceptionConfigs = ec.conf]>>]
        children(ns) ==
            IF Len(n.blocks) > 0
            THEN withParent(childNodeSchemas(n.blocks, n.id, path,
                                             Compiled("ok", <<>>, <<>>, {})), ns)
            ELSE Compiled("ok", <<ns>>, <<>>, {})
        adapted(ns, ec) ==
            IF ~ec.ok THEN Failed("err")
            ELSE children([ns EXCEPT !.exceptionConfigs = ec.conf])
    IN IF n.type = NodeTypeSubWorkflow
       THEN subWorkflow(toSubWorkflowNodeSchema(n, path),
                        toExceptionConfig(n, NodeTypeSubWorkflow))
       ELSE IF n.type \in AdaptedNodeTypes THEN adapted(Adapt(n), toExceptionConfig(n, n.type))
       ELSE IF n.type \in blockTypeToSkip THEN Compiled("ok", <<>>, <<>>, {})
       ELSE Failed("err")

\* the connections a break or continue block adds towards its parent
jumpConnections(node) ==
    LET IsJump(b) == b.type \in {NodeTypeBreak, NodeTypeContinue}
        toParent(jumps) ==
            [j \in 1..Len(jumps) |-> Connection(jumps[j].id, node.id, FALSE, <<>>)]
    IN toParent(SelectSeq(node.blocks, IsJump))

BatchInlineOutputPort ==
    <<"b", "a", "t", "c", "h", "-", "f", "u", "n", "c", "t", "i", "o", "n", "-", "i", "n", "l", "i", "n", "e", "-", "o", "u", "t", "p", "u", "t">>

BatchInlineInputPort ==
    <<"b", "a", "t", "c", "h", "-", "f", "u", "n", "c", "t", "i", "o", "n", "-", "i", "n", "l", "i", "n", "e", "-", "i", "n", "p", "u", "t">>

\* the id of the inner node of a node in batch mode
GenerateNodeIDForBatchMode(id) == id \o "_inner"

\* a faulty expansion that leaves every node as it is
parseBatchModeOff(n) == [ok |-> TRUE, enabled |-> FALSE, node |-> n]

\* parseBatchMode: a node with batch mode enabled becomes a batch node of the
\* same id whose only block is the inner node of the original type
parseBatchMode(n) ==
    LET innerN ==
            [Node(GenerateNodeIDForBatchMode(n.id), n.type, n.title \o "_inner") EXCEPT
                !.inputParameters = n.inputParameters,
                !.settingOnError = n.settingOnError,
                !.workflowID = n.workflowID,
                !.workflowVersion = n.workflowVersion,
                !.outputs = n.outputVariable.fields]
        parentN ==
            [Node(n.id, NodeTypeBatch, n.title) EXCEPT
                !.inputParameters = n.nodeBatchInfo.inputLists,
                !.outputs = <<n.outputs[1]>>,
                !.outputVariable = Variable(VariableTypeList, VariableTypeObject, <<>>),
                !.outputRefs = <<GenerateNodeIDForBatchMode(n.id)>>,
                !.blocks = <<innerN>>,
                !.edges = <<Edge(n.id, GenerateNodeIDForBatchMode(n.id), BatchInlineOutputPort, <<>>),
                            Edge(GenerateNodeIDForBatchMode(n.id), n.id, <<>>, BatchInlineInputPort)>>]
        result(ok, enabled, batchN) == [ok |-> ok, enabled |-> enabled, node |-> batchN]
    IN IF ~n.nodeBatchInfo.batchEnable THEN result(TRUE, FALSE, n)
       ELSE IF Len(n.outputs) # 1 THEN result(FALSE, FALSE, n)
       ELSE IF n.outputVariable.type # VariableTypeList THEN result(FALSE, FALSE, n)
       ELSE IF n.outputVariable.elementType # VariableTypeObject THEN result(FALSE, FALSE, n)
       ELSE result(TRUE, TRUE, parentN)

\* the loop of CanvasToWorkflowSchema over the canvas nodes
convertNodes(nodes, path, acc) ==
    LET node == Head(nodes)
        add(batch, ns) ==
            IF ns.status # "ok" THEN Failed(ns.status)
            ELSE convertNodes(Tail(nodes), path,
                     [acc EXCEPT
                         !.nodes = @ \o ns.nodes,
                         !.hierarchy = setHierarchy(@, ns.hierarchy),
                         !.generatedNodes =
                             IF batch.enabled THEN Append(@, batch.node.blocks[1].id) ELSE @,
                         !.connections = @ \o jumpConnections(node)
                             \o [k \in 1..Len(batch.node.edges) |->
                                    EdgeToConnection(batch.node.edges[k])]])
        convert(batch) ==
            IF ~batch.ok THEN Failed("err")
            ELSE add(batch, NodeToNodeSchema(batch.node, path))
    IN IF Len(nodes) = 0 THEN acc
       ELSE IF \E j \in 1..Len(node.blocks) :
                  Len(node.blocks[j].blocks) > 0 \/ Len(node.blocks[j].edges) > 0
       THEN Failed("err")
       ELSE convert(parseBatchMode(node))

\* the node map of CanvasToWorkflowSchema: canvas nodes and their blocks
nodeTypeMap(nodes) ==
    LET types(all) == [id \in {n.id : n \in all} |-> (CHOOSE n \in all : n.id = id).type]
    IN types(SeqToSet(nodes) \cup UNION {SeqToSet(nodes[i].blocks) : i \in 1..Len(nodes)})

\* schema.BuildBranches: the ports of the connections that leave each node on a port
BuildBranches(connections) ==
    [ok |-> TRUE,
     branches |-> {<<connections[i].fromNode, connections[i].fromPort>> :
                      i \in {j \in 1..Len(connections) :
                                connections[j].hasPort /\ Len(connections[j].fromPort) > 0}}]

\* a faulty recovery that lets the panic through
recoverPanicNone(sc) == sc

\* the deferred recover of CanvasToWorkflowSchema: a panic becomes the returned error
recoverPanic(sc) == IF sc.status = "panic" THEN Failed("err") ELSE sc

CanvasToWorkflowSchemaAt(s, path) ==
    LET built(sc, branches) == IF ~branches.ok THEN Failed("err") ELSE WorkflowSchemaInit(sc)
        normalized(sc, newConnections) ==
            IF ~newConnections.ok THEN Failed("err")
            ELSE built([sc EXCEPT !.connections = newConnections.connections],
                       BuildBranches(newConnections.connections))
        connect(connected, sc) ==
            IF sc.status # "ok" THEN sc
            ELSE normalized(sc,
                     normalizePorts(
                         sc.connections \o [k \in 1..Len(connected.edges) |->
                                               EdgeToConnection(connected.edges[k])],
                         nodeTypeMap(connected.nodes)))
        convert(connected) ==
            IF connected.panic THEN Failed("panic")
            ELSE connect(connected,
                     convertNodes(connected.nodes, path, Compiled("ok", <<>>, <<>>, {})))
    IN recoverPanic(convert(PruneIsolatedNodes(s.nodes, s.edges, "")))

CanvasToWorkflowSchema(s) == CanvasToWorkflowSchemaAt(s, {})

(***************************************************************************)
(* WorkflowSchema.IsEqual                                                  *)
(***************************************************************************)
\* Connection.ID
ConnectionID(c) ==
    IF c.hasPort THEN <<c.fromNode, c.toNode, c.fromPort>> ELSE <<c.fromNode, c.toNode>>

connectionsMap(w) == {ConnectionID(w.connections[i]) : i \in 1..Len(w.connections)}

\* the node map IsEqual builds: a later node of the same key replaces an earlier one
schemaNodeMap(w) ==
    LET last(k) == CHOOSE i \in 1..Len(w.nodes) :
                       /\ w.nodes[i].key = k
                       /\ \A j \in 1..Len(w.nodes) : w.nodes[j].key = k => j <= i
    IN [k \in {w.nodes[i].key : i \in 1..Len(w.nodes)} |-> w.nodes[last(k)]]

\* a faulty enumeration that lists every node under every parent
doGetCompositeNodesAll(w) ==
    {[parent |-> p, children |-> DOMAIN schemaNodeMap(w)] : p \in {q[2] : q \in w.hierarchy}}

\* doGetCompositeNodes: per parent of the hierarchy that is a node, the children
\* of the hierarchy that are nodes; nothing for a parent without such a child
doGetCompositeNodes(w) ==
    LET nodeMap == schemaNodeMap(w)
        listed == {q \in w.hierarchy : q[1] \in DOMAIN nodeMap /\ q[2] \in DOMAIN nodeMap}
        parentToChildren(parentKey) == {q[1] : q \in {r \in listed : r[2] = parentKey}}
    IN {[parent |-> parentKey, children |-> parentToChildren(parentKey)] :
           parentKey \in {q[2] : q \in listed}}

\* GetCompositeNodes: computed when first asked for
GetCompositeNodes(w) == doGetCompositeNodes(w)

\* a faulty comparison that looks at the names only
nodeSchemaEqualNames(node, other) == node.name = other.name

\* the comparison function IsEqual hands to maps.EqualFunc
nodeSchemaEqual(node, other) ==
    /\ node.name = other.name
    /\ node.configs = other.configs
    /\ node.inputs = other.inputs
    /\ node.inputSources = other.inputSources
    /\ node.outputs = other.outputs
    /\ node.exceptionConfigs = other.exceptionConfigs
    /\ node.subWorkflowBasic = other.subWorkflowBasic

IsEqual(w, other) ==
    LET sameNodes(thisNodeMap, otherNodeMap) ==
            /\ DOMAIN otherNodeMap = DOMAIN thisNodeMap
            /\ \A k \in DOMAIN thisNodeMap : nodeSchemaEqual(otherNodeMap[k], thisNodeMap[k])
    IN /\ connectionsMap(other) = connectionsMap(w)
       /\ sameNodes(schemaNodeMap(w), schemaNodeMap(other))

(***************************************************************************)
(* The repository (workflow.Repository) as the service uses it.            *)
(***************************************************************************)
NoVersion == [has |-> FALSE, v |-> <<>>]

\* vo.Meta: app id (0 for a library workflow), mode, latest published version
Meta(appID, mode) == [appID |-> appID, mode |-> mode, latestPublishedVersion |-> NoVersion]

\* repo.DraftV2: the current draft, selected by no commit id or by its own
DraftV2(id, commitID) ==
    IF id \in DOMAIN draft /\ (Len(commitID) = 0 \/ commitID = draft[id].commitID)
    THEN [ok |-> TRUE, draft |-> draft[id]]
    ELSE [ok |-> FALSE, draft |-> <<>>]

\* the reference table after repo.CreateVersion replaced the edges of id
replaceReferences(table, id, wfRefs) ==
    {r \in table : r.referringID # id} \cup wfRefs

\* the version record repo.CreateVersion inserts; refs are the edges written with it
versionRecord(vInfo, wfRefs) ==
    [version |-> vInfo.version, canvas |-> vInfo.canvas, commitID |-> vInfo.commitID,
     inputParamsStr |-> vInfo.inputParamsStr, outputParamsStr |-> vInfo.outputParamsStr,
     refs |-> wfRefs]

\* the tables of the repository as one value
Repo ==
    [nextID |-> nextID, meta |-> meta, draft |-> draft, versions |-> versions,
     references |-> references, connectorVersions |-> connectorVersions,
     commitIDs |-> commitIDs]

\* repo.CreateVersion, in one transaction: the version record, the latest
\* published version of the meta, and the reference edges of the workflow
CreateVersion(R, id, vInfo, wfRefs) ==
    [R EXCEPT !.versions[id] = Append(@, versionRecord(vInfo, wfRefs)),
              !.meta[id].latestPublishedVersion = [has |-> TRUE, v |-> vInfo.version],
              !.references = replaceReferences(@, id, wfRefs)]

(***************************************************************************)
(* Save and calculateTestRunSuccess                                        *)
(***************************************************************************)
\* the params of the first node of a type, none when the canvas has no such node
FindNode(nodes, type) ==
    LET first(S) == IF S = {} THEN [found |-> FALSE, node |-> <<>>]
                    ELSE [found |-> TRUE,
                          node |-> nodes[CHOOSE i \in S : \A j \in S : i <= j]]
    IN first({i \in 1..Len(nodes) : nodes[i].type = type})

\* extractInputsAndOutputsNamedInfoList: outputs of the entry node, inputs of the exit node
extractInputsAndOutputsNamedInfoList(c) ==
    LET io(startNode, endNode) ==
            [inputs |-> IF startNode.found THEN startNode.node.outputs ELSE <<>>,
             outputs |-> IF endNode.found THEN endNode.node.inputParameters ELSE <<>>]
    IN io(FindNode(c.nodes, NodeTypeEntry), FindNode(c.nodes, NodeTypeExit))

\* the result of calculateTestRunSuccess; "diverge" when a compilation does not end
TestRunSuccess(status, value) == [status |-> status, value |-> value]

\* a faulty calculateTestRunSuccess that inherits the flag without comparing schemas
calculateTestRunSuccessNoCompare(c, wid) ==
    LET inherit(sc, existedDraft) ==
            IF sc.status = "diverge" THEN TestRunSuccess("diverge", FALSE)
            ELSE IF sc.status = "err" THEN TestRunSuccess("ok", FALSE)
            ELSE IF ~existedDraft.ok THEN TestRunSuccess("ok", FALSE)
            ELSE TestRunSuccess("ok", existedDraft.draft.testRunSuccess)
    IN inherit(CanvasToWorkflowSchema(c), DraftV2(wid, <<>>))

calculateTestRunSuccess(c, wid) ==
    LET compare(sc, existedDraft, existedSc) ==
            IF existedSc.status = "diverge" THEN TestRunSuccess("diverge", FALSE)
            ELSE IF existedSc.status = "ok"
            THEN IF ~IsEqual(existedSc, sc) THEN TestRunSuccess("ok", FALSE)
                 ELSE TestRunSuccess("ok", existedDraft.draft.testRunSuccess)
            ELSE TestRunSuccess("ok", FALSE)
        existing(sc, existedDraft) ==
            IF ~existedDraft.ok THEN TestRunSuccess("ok", FALSE)
            ELSE compare(sc, existedDraft,
                     CanvasToWorkflowSchema(UnmarshalString(existedDraft.draft.canvas).canvas))
        compiled(sc) ==
            IF sc.status = "diverge" THEN TestRunSuccess("diverge", FALSE)
            ELSE IF sc.status = "err" THEN TestRunSuccess("ok", FALSE)
            ELSE existing(sc, DraftV2(wid, <<>>))
    IN compiled(CanvasToWorkflowSchema(c))

\* vo.DraftInfo
DraftInfo(canvas, testRunSuccess, inputParamsStr, outputParamsStr, commitID) ==
    [canvas |-> canvas, testRunSuccess |-> testRunSuccess, modified |-> TRUE,
     inputParamsStr |-> inputParamsStr, outputParamsStr |-> outputParamsStr,
     commitID |-> commitID]

\* a faulty draft construction that keeps the commit id "0" for every save
saveDraftInfoFixedCommit(schema, testRunSuccess, io, commitID) ==
    DraftInfo(schema, testRunSuccess, io.inputs, io.outputs, FormatInt(0))

\* the vo.DraftInfo Save hands to CreateOrUpdateDraft
saveDraftInfo(schema, testRunSuccess, io, commitID) ==
    DraftInfo(schema, testRunSuccess, io.inputs, io.outputs, FormatInt(commitID))

\* Save up to its return: the error (or "none"), whether GenID was reached,
\* and the draft written.  fail names the collaborator that fails in this call;
\* the err "crash" is the stack overflow of a compilation that does not end.
SaveOutcome(id, schema, genID, fail) ==
    LET none(err, usesID) == [err |-> err, usesID |-> usesID, draft |-> <<>>]
        write(u, testRunSuccess) ==
            IF testRunSuccess.status = "diverge" THEN none("crash", FALSE)
            ELSE IF fail = "idgen" THEN none("IDGenError", FALSE)
            ELSE IF fail = "repo" THEN none("OperationFail", TRUE)
            ELSE [err |-> "none", usesID |-> TRUE,
                  draft |-> saveDraftInfo(schema, testRunSuccess.value,
                                extractInputsAndOutputsNamedInfoList(u.canvas), genID)]
        parsed(u) ==
            IF ~u.ok THEN none("SerializationFail", FALSE)
            ELSE write(u, calculateTestRunSuccess(u.canvas, id))
    IN parsed(UnmarshalString(schema))

(***************************************************************************)
(* Operations of the service.                                              *)
(***************************************************************************)
ModeWorkflow == "Workflow"

ModeChatFlow == "ChatFlow"

Call(op, err) == [op |-> op, err |-> err]

\* no call of PruneIsolatedNodes has returned
NotPruned == [done |-> FALSE, panic |-> FALSE, nodes |-> <<>>, edges |-> <<>>]

Init ==
    /\ nextID = 1
    /\ meta = <<>>
    /\ draft = <<>>
    /\ versions = <<>>
    /\ references = {}
    /\ connectorVersions = {}
    /\ commitIDs = <<>>
    /\ lastOp = Call("none", "none")
    /\ publishing = {}
    /\ wfSchema = Compiled("ok", <<>>, <<>>, {})
    /\ otherSchema = Compiled("ok", <<>>, <<>>, {})
    /\ pruneInput = Canvas(<<>>, <<>>)
    /\ pruneOutput = NotPruned

\* a table with the entry of one id set
put(table, id, value) ==
    [k \in DOMAIN table \cup {id} |-> IF k = id THEN value ELSE table[k]]

\* Create: CreateMeta, then Save of the init canvas; a failing Save leaves the
\* meta.  limit is the last id the id generator hands out.
CreateWithin(limit, appID, initCanvasSchema, fail) ==
    LET apply(id, out) ==
            /\ nextID + (IF out.usesID THEN 1 ELSE 0) <= limit
            /\ nextID' = nextID + 1 + (IF out.usesID THEN 1 ELSE 0)
            /\ meta' = put(meta, id, Meta(appID, ModeWorkflow))
            /\ versions' = put(versions, id, <<>>)
            /\ draft' = IF out.err = "none" THEN put(draft, id, out.draft) ELSE draft
            /\ commitIDs' = put(commitIDs, id,
                                IF out.err = "none" THEN {out.draft.commitID} ELSE {})
            /\ lastOp' = Call("Create", out.err)
            /\ UNCHANGED <<pruneInput, pruneOutput, wfSchema, otherSchema, publishing, references, connectorVersions>>
    IN apply(nextID, SaveOutcome(nextID, initCanvasSchema, nextID + 1, fail))

Create(appID, initCanvasSchema, fail) == CreateWithin(MaxID, appID, initCanvasSchema, fail)

\* Save(id, schema)
Save(id, schema, fail) ==
    LET apply(out) ==
            /\ out.usesID => nextID <= MaxID
            /\ nextID' = nextID + (IF out.usesID THEN 1 ELSE 0)
            /\ draft' = IF out.err = "none" THEN put(draft, id, out.draft) ELSE draft
            /\ commitIDs' = IF out.err = "none"
                            THEN [commitIDs EXCEPT ![id] = @ \cup {out.draft.commitID}]
                            ELSE commitIDs
            /\ lastOp' = Call("Save", out.err)
            /\ UNCHANGED <<pruneInput, pruneOutput, wfSchema, otherSchema, publishing, meta, versions, references, connectorVersions>>
    IN apply(SaveOutcome(id, schema, nextID, fail))

\* the test runner records a successful run of the current draft
TestRun(id) ==
    /\ id \in DOMAIN draft
    /\ ~draft[id].testRunSuccess
    /\ CanvasToWorkflowSchema(UnmarshalString(draft[id].canvas).canvas).status = "ok"
    /\ draft' = [draft EXCEPT ![id].testRunSuccess = TRUE]
    /\ lastOp' = Call("TestRun", "none")
    /\ UNCHANGED <<pruneInput, pruneOutput, wfSchema, otherSchema, publishing, nextID, meta, versions, references, connectorVersions, commitIDs>>

(***************************************************************************)
(* Publish                                                                 *)
(***************************************************************************)
\* a faulty version check that lets an equal version through
publishVersionCheckAllowEqual(latestPublishedVersion, version) ==
    LET check(latestVersion, currentVersion) ==
            IF ~latestVersion.ok THEN "VersionParse"
            ELSE IF ~currentVersion.ok THEN "VersionParse"
            ELSE IF isIncremental(currentVersion, latestVersion) THEN "VersionMonotonicity"
            ELSE "none"
    IN IF ~latestPublishedVersion.has THEN "none"
       ELSE check(parseVersion(latestPublishedVersion.v), parseVersion(version))

\* the version check of Publish: only against an existing latest published version
publishVersionCheck(latestPublishedVersion, version) ==
    LET check(latestVersion, currentVersion) ==
            IF ~latestVersion.ok THEN "VersionParse"
            ELSE IF ~currentVersion.ok THEN "VersionParse"
            ELSE IF ~isIncremental(latestVersion, currentVersion) THEN "VersionMonotonicity"
            ELSE "none"
    IN IF ~latestPublishedVersion.has THEN "none"
       ELSE check(parseVersion(latestPublishedVersion.v), parseVersion(version))

\* a faulty test-run gate that a forced publish does not pass either
publishGateNoForce(force, testRunSuccess) == ~testRunSuccess

\* the test-run gate of Publish: TRUE when the publish is rejected
publishGate(force, testRunSuccess) == ~force /\ ~testRunSuccess

\* a faulty version info that carries no commit id
publishVersionInfoNoCommit(version, d) ==
    [version |-> version, canvas |-> d.canvas, commitID |-> <<>>,
     inputParamsStr |-> d.inputParamsStr, outputParamsStr |-> d.outputParamsStr]

\* the vo.VersionInfo Publish builds from the draft
publishVersionInfo(version, d) ==
    [version |-> version, canvas |-> d.canvas, commitID |-> d.commitID,
     inputParamsStr |-> d.inputParamsStr, outputParamsStr |-> d.outputParamsStr]

\* Publish up to the call of CreateVersion: the error, or "none" with the
\* version info and the reference edges
PublishOutcome(id, version, force, commitID) ==
    LET fail(err) == [err |-> err, vInfo |-> <<>>, refs |-> {}]
        build(d, wfRefs) ==
            IF ~wfRefs.ok THEN fail("RefParse")
            ELSE [err |-> "none", vInfo |-> publishVersionInfo(version, d.draft),
                  refs |-> wfRefs.refs]
        gate(d) ==
            IF ~d.ok THEN fail("DraftNotFound")
            ELSE IF publishGate(force, d.draft.testRunSuccess) THEN fail("TestRunGate")
            ELSE build(d, canvasToRefs(id, d.draft.canvas))
        checked(check) ==
            IF check # "none" THEN fail(check) ELSE gate(DraftV2(id, commitID))
    IN checked(publishVersionCheck(meta[id].latestPublishedVersion, version))

\* Publish(policy); repoFail is a failure of the repository in CreateVersion
Publish(id, version, force, commitID, repoFail) ==
    LET write(R) ==
            /\ versions' = R.versions
            /\ references' = R.references
            /\ meta' = R.meta
        apply(out, err) ==
            /\ err = "none" => Len(versions[id]) < MaxVersions
            /\ lastOp' = Call("Publish", err)
            /\ IF err = "none"
               THEN write(CreateVersion(Repo, id, out.vInfo, out.refs))
               ELSE UNCHANGED <<versions, references, meta>>
            /\ UNCHANGED <<pruneInput, pruneOutput, wfSchema, otherSchema, publishing, nextID, draft, connectorVersions, commitIDs>>
        result(out) ==
            apply(out, IF out.err # "none" THEN out.err
                       ELSE IF repoFail \/ versionExists(versions[id], version)
                       THEN "OperationFail"
                       ELSE "none")
    IN /\ id \in WorkflowIDs
       /\ result(PublishOutcome(id, version, force, commitID))

\* Publish of a caller that runs beside other callers, its first part: GetMeta,
\* the version check, DraftV2, the test-run gate and canvasToRefs. A call that
\* fails returns here; one that passes is about to call CreateVersion
PublishBegin(id, version, force, commitID) ==
    LET begin(out) ==
            /\ IF out.err # "none"
               THEN /\ lastOp' = Call("Publish", out.err)
                    /\ UNCHANGED publishing
               ELSE /\ Cardinality(publishing) < MaxPublishing
                    /\ publishing' = publishing \cup
                           {[id |-> id, version |-> version, vInfo |-> out.vInfo,
                             refs |-> out.refs]}
                    /\ publishing' # publishing
                    /\ UNCHANGED lastOp
            /\ UNCHANGED <<pruneInput, pruneOutput, wfSchema, otherSchema, nextID, draft, versions, references,
                           meta, connectorVersions, commitIDs>>
    IN /\ id \in WorkflowIDs
       /\ begin(PublishOutcome(id, version, force, commitID))

\* the second part of that Publish: repo.CreateVersion with what the first part
\* read, whatever was published in between
PublishCreateVersion(call) ==
    LET write(R) ==
            /\ versions' = R.versions
            /\ references' = R.references
            /\ meta' = R.meta
        apply(err) ==
            /\ err = "none" => Len(versions[call.id]) < MaxVersions
            /\ lastOp' = Call("Publish", err)
            /\ IF err = "none"
               THEN write(CreateVersion(Repo, call.id, call.vInfo, call.refs))
               ELSE UNCHANGED <<versions, references, meta>>
            /\ publishing' = publishing \ {call}
            /\ UNCHANGED <<pruneInput, pruneOutput, wfSchema, otherSchema, nextID, draft, connectorVersions, commitIDs>>
    IN /\ call \in publishing
       /\ apply(IF versionExists(versions[call.id], call.version)
                THEN "OperationFail" ELSE "none")

(***************************************************************************)
(* UpdateMeta and adaptToChatFlow                                          *)
(***************************************************************************)
\* a faulty adaptation that appends the chat variables whether they are there or not
chatFlowOutputsAppendAll(outputs) == outputs \o <<UserInputKey, ConversationNameKey>>

\* the start-node outputs after adaptToChatFlow added the chat variables it misses
chatFlowOutputs(outputs) ==
    LET withInput == IF UserInputKey \in SeqToSet(outputs) THEN outputs
                     ELSE Append(outputs, UserInputKey)
    IN IF ConversationNameKey \in SeqToSet(outputs) THEN withInput
       ELSE Append(withInput, ConversationNameKey)

\* adaptToChatFlow up to its Save: the error, or "none" with the canvas string to save
adaptToChatFlowCanvas(wID) ==
    LET fail(err) == [err |-> err, canvas |-> InvalidJSON]
        adapt(canvas, S) ==
            IF S = {} THEN fail("NoStartNode")
            ELSE [err |-> "none",
                  canvas |-> MarshalString(Canvas(
                      [canvas.nodes EXCEPT ![CHOOSE i \in S : \A j \in S : i <= j].outputs =
                          chatFlowOutputs(@)],
                      canvas.edges))]
        parsed(u) ==
            IF ~u.ok THEN fail("SerializationFail")
            ELSE adapt(u.canvas,
                       {i \in 1..Len(u.canvas.nodes) : u.canvas.nodes[i].type = NodeTypeEntry})
        loaded(wfEntity) ==
            IF ~wfEntity.ok THEN fail("NotFound")
            ELSE parsed(UnmarshalString(wfEntity.canvas))
    IN loaded(GetEntity(wID, <<>>))

\* UpdateMeta(id, metaUpdate) with a workflow mode; the meta is updated first, a
\* switch to ChatFlow then saves the adapted draft
UpdateMeta(id, mode, fail) ==
    LET apply(out) ==
            /\ out.usesID => nextID <= MaxID
            /\ meta' = [meta EXCEPT ![id].mode = mode]
            /\ nextID' = nextID + (IF out.usesID THEN 1 ELSE 0)
            /\ draft' = IF out.err = "none" /\ out.usesID THEN put(draft, id, out.draft)
                        ELSE draft
            /\ commitIDs' = IF out.err = "none" /\ out.usesID
                            THEN [commitIDs EXCEPT ![id] = @ \cup {out.draft.commitID}]
                            ELSE commitIDs
            /\ lastOp' = Call("UpdateMeta", out.err)
            /\ UNCHANGED <<pruneInput, pruneOutput, wfSchema, otherSchema, publishing, versions, references, connectorVersions>>
        save(adapted) ==
            IF adapted.err # "none"
            THEN apply([err |-> adapted.err, usesID |-> FALSE, draft |-> <<>>])
            ELSE apply(SaveOutcome(id, adapted.canvas, nextID, fail))
    IN /\ id \in WorkflowIDs
       /\ IF mode # ModeChatFlow
          THEN apply([err |-> "none", usesID |-> FALSE, draft |-> <<>>])
          ELSE save(adaptToChatFlowCanvas(id))

(***************************************************************************)
(* ReleaseApplicationWorkflows                                             *)
(***************************************************************************)
\* the function-call workflow list of an LLM node after the replacement
replaceInWorkflowList(workflowList, relatedWorkflows) ==
    LET item(i, p) ==
            IF p.val \in DOMAIN relatedWorkflows
            THEN [workflowID |-> FormatInt(relatedWorkflows[p.val].id),
                  workflowVersion |-> relatedWorkflows[p.val].version]
            ELSE workflowList[i]
        replace(parsed) ==
            [ok |-> \A i \in 1..Len(workflowList) : parsed[i].ok,
             list |-> [i \in 1..Len(workflowList) |->
                         IF \A j \in 1..i : parsed[j].ok THEN item(i, parsed[i])
                         ELSE workflowList[i]]]
    IN replace([i \in 1..Len(workflowList) |-> ParseInt(workflowList[i].workflowID)])

\* replaceRelatedWorkflowOrExternalResourceInWorkflowNodes, its workflow part:
\* sub-workflow nodes and LLM workflow tools that refer to a related workflow are
\* pointed at its (id, version); an id that does not parse is an error, which
\* leaves the nodes before it rewritten and the nodes after it as they were
RECURSIVE replaceRelatedWorkflowOrExternalResourceInWorkflowNodes(_, _)
replaceRelatedWorkflowOrExternalResourceInWorkflowNodes(nodes, relatedWorkflows) ==
    LET hasWorkflowRelated == DOMAIN relatedWorkflows # {}
        failed(node) == [ok |-> FALSE, node |-> node]
        inBlocks(node, sub) == [ok |-> sub.ok, node |-> [node EXCEPT !.blocks = sub.nodes]]
        withBlocks(node) ==
            IF Len(node.blocks) = 0 THEN [ok |-> TRUE, node |-> node]
            ELSE inBlocks(node, replaceRelatedWorkflowOrExternalResourceInWorkflowNodes(
                                    node.blocks, relatedWorkflows))
        subWorkflow(node, p) ==
            IF ~p.ok THEN failed(node)
            ELSE IF p.val \in DOMAIN relatedWorkflows
            THEN withBlocks([node EXCEPT
                     !.workflowID = FormatInt(relatedWorkflows[p.val].id),
                     !.workflowVersion = relatedWorkflows[p.val].version])
            ELSE withBlocks(node)
        llm(node, l) ==
            IF ~l.ok THEN failed([node EXCEPT !.workflowList = l.list])
            ELSE withBlocks([node EXCEPT !.workflowList = l.list])
        one(node) ==
            IF node.type = NodeTypeSubWorkflow
            THEN IF ~hasWorkflowRelated THEN [ok |-> TRUE, node |-> node]
                 ELSE subWorkflow(node, ParseInt(node.workflowID))
            ELSE IF node.type = NodeTypeLLM /\ hasWorkflowRelated
            THEN llm(node, replaceInWorkflowList(node.workflowList, relatedWorkflows))
            ELSE withBlocks(node)
        all(res) ==
            [ok |-> \A i \in 1..Len(nodes) : res[i].ok,
             nodes |-> [i \in 1..Len(nodes) |->
                          IF \A j \in 1..(i - 1) : res[j].ok THEN res[i].node ELSE nodes[i]]]
    IN all([i \in 1..Len(nodes) |-> one(nodes[i])])

\* validateWorkflowTree of one canvas: an error for a canvas that cannot be read,
\* issues for a node of no known type and for a reference that does not resolve
validateWorkflowTree(canvasSchema) ==
    LET known == AdaptedNodeTypes \cup blockTypeToSkip \cup {NodeTypeSubWorkflow}
        issues(pruned, refs) ==
            [err |-> FALSE,
             issues |-> \/ \E i \in 1..Len(pruned.nodes) : pruned.nodes[i].type \notin known
                        \/ ~refs.ok
                        \/ \E r \in refs.refs : r.referredID \notin WorkflowIDs]
        check(pruned) ==
            IF pruned.panic THEN [err |-> TRUE, issues |-> FALSE]
            ELSE issues(pruned, getRefFn(0, pruned.nodes, {}))
        parsed(u) ==
            IF ~u.ok THEN [err |-> TRUE, issues |-> FALSE]
            ELSE check(PruneIsolatedNodes(u.canvas.nodes, u.canvas.edges, ""))
    IN parsed(UnmarshalString(canvasSchema))

\* repo.MGetDrafts and repo.GetDraftWorkflowsByAppID: the workflows of an app that have a draft
MGetDrafts(appID) == {id \in DOMAIN draft : meta[id].appID = appID}

\* the canvas string of a workflow to release, with its references rewritten
releaseCanvas(id, relatedWorkflow) ==
    LET fail(err) == [err |-> err, canvas |-> InvalidJSON]
        marshal(c, replaced) ==
            IF ~replaced.ok THEN fail("RefParse")
            ELSE [err |-> "none",
                  canvas |-> MarshalString(Canvas(replaced.nodes, c.canvas.edges))]
        parsed(c) ==
            IF ~c.ok THEN fail("SerializationFail")
            ELSE marshal(c, replaceRelatedWorkflowOrExternalResourceInWorkflowNodes(
                                c.canvas.nodes, relatedWorkflow))
    IN parsed(UnmarshalString(draft[id].canvas))

\* the loop over workflowsToPublish, in the order the map yields the workflows;
\* canvases holds the rewritten canvas of each workflow, failAt is the position
\* at which the repository fails in CreateVersion
RECURSIVE releaseVersions(_, _, _, _, _, _, _)
releaseVersions(R, order, k, version, canvases, failAt, created) ==
    LET stop(err) == [R |-> R, err |-> err, created |-> created]
        vInfo(id) ==
            [version |-> version, canvas |-> canvases[id].canvas,
             commitID |-> draft[id].commitID,
             inputParamsStr |-> draft[id].inputParamsStr,
             outputParamsStr |-> draft[id].outputParamsStr]
        create(id, wfRefs) ==
            IF ~wfRefs.ok THEN stop("RefParse")
            ELSE IF failAt = k THEN stop("OperationFail")
            ELSE releaseVersions(CreateVersion(R, id, vInfo(id), wfRefs.refs), order, k + 1,
                                 version, canvases, failAt, created \cup {id})
    IN IF k > Len(order) THEN stop("none")
       ELSE IF versionExists(R.versions[order[k]], version)
       THEN releaseVersions(R, order, k + 1, version, canvases, failAt, created)
       ELSE create(order[k], canvasToRefs(order[k], canvases[order[k]].canvas))

\* the sequences that hold each element of a set once
Orders(S) ==
    {o \in [1..Cardinality(S) -> S] : \A i, j \in 1..Cardinality(S) : o[i] = o[j] => i = j}

\* ReleaseApplicationWorkflows up to its return: the repository and the error
ReleaseOutcome(appID, version, connectorIDs, order, failAt) ==
    LET willPublishWorkflows == SeqToSet(order)
        relatedWorkflow == [id \in MGetDrafts(appID) |-> [id |-> id, version |-> version]]
        fail(err) == [R |-> Repo, err |-> err]
        bind(done) ==
            IF done.err # "none" THEN [R |-> done.R, err |-> done.err]
            ELSE IF failAt > Len(order) THEN [R |-> done.R, err |-> "OperationFail"]
            ELSE [R |-> [done.R EXCEPT !.connectorVersions =
                            @ \cup {<<appID, c, w, version>> :
                                       c \in connectorIDs, w \in done.created}],
                  err |-> "none"]
        publish(canvases) ==
            IF \E id \in willPublishWorkflows : canvases[id].err # "none"
            THEN fail(canvases[CHOOSE id \in willPublishWorkflows :
                                  canvases[id].err # "none"].err)
            ELSE bind(releaseVersions(Repo, order, 1, version, canvases, failAt, {}))
        replace(validated) ==
            IF \E id \in willPublishWorkflows : validated[id].err THEN fail("ValidateError")
            ELSE IF \E id \in willPublishWorkflows : validated[id].issues
            THEN fail("ValidationFailed")
            ELSE publish([id \in willPublishWorkflows |-> releaseCanvas(id, relatedWorkflow)])
    IN IF connectorIDs = {} THEN fail("ConnectorRequired")
       ELSE replace([id \in willPublishWorkflows |-> validateWorkflowTree(draft[id].canvas)])

\* ReleaseApplicationWorkflows(appID, config): workflowIDs empty releases every
\* workflow of the app; order is the order in which the map of workflows to
\* publish is walked
ReleaseApplicationWorkflows(appID, version, connectorIDs, workflowIDs, order, failAt) ==
    LET apply(out) ==
            /\ versions' = out.R.versions
            /\ meta' = out.R.meta
            /\ references' = out.R.references
            /\ connectorVersions' = out.R.connectorVersions
            /\ lastOp' = Call("ReleaseApplicationWorkflows", out.err)
            /\ UNCHANGED <<pruneInput, pruneOutput, wfSchema, otherSchema, publishing, nextID, draft, commitIDs>>
    IN /\ SeqToSet(order) = IF workflowIDs = {} THEN MGetDrafts(appID)
                            ELSE MGetDrafts(appID) \cap workflowIDs
       /\ \A id \in SeqToSet(order) :
             ~versionExists(versions[id], version) => Len(versions[id]) < MaxVersions
       /\ apply(ReleaseOutcome(appID, version, connectorIDs, order, failAt))

(***************************************************************************)
(* CopyWorkflowFromAppToLibrary                                            *)
(***************************************************************************)
workflowPublishVersion == <<"v", "0", ".", "0", ".", "1">>

\* the app id of a workflow of the library
LibraryAppID == 0

\* the ids a node refers to, in the order validateAndBuildWorkflowReference meets
\* them: the sub-workflow of a SubWorkflow node, the workflow tools of an LLM node
nodeWorkflowIDs(node) ==
    IF node.type = NodeTypeSubWorkflow THEN <<node.workflowID>>
    ELSE IF node.type = NodeTypeLLM
    THEN [k \in 1..Len(node.workflowList) |-> node.workflowList[k].workflowID]
    ELSE <<>>

\* validateAndBuildWorkflowReference: walks the nodes, and for each reference to
\* a draft workflow of the app walks the canvas of that workflow.  path holds
\* the workflows whose canvases are being walked: a reference back into it is
\* walked again without end.  The result is the status and the workflows met.
RECURSIVE validateAndBuildWorkflowReference(_, _, _, _)
RECURSIVE buildReferencesOfNode(_, _, _, _)
\* a faulty walk that follows no reference
buildReferencesOfNodeNone(ids, draftWorkflows, path, met) == [status |-> "ok", met |-> met]

buildReferencesOfNode(ids, draftWorkflows, path, met) ==
    LET stop(status) == [status |-> status, met |-> met]
        rest(sub) ==
            IF sub.status # "ok" THEN sub
            ELSE buildReferencesOfNode(Tail(ids), draftWorkflows, path, sub.met)
        walk(p, subCanvas) ==
            IF ~subCanvas.ok THEN stop("err")
            ELSE IF p.val \in path THEN stop("diverge")
            ELSE rest(validateAndBuildWorkflowReference(subCanvas.canvas.nodes, draftWorkflows,
                          path \cup {p.val}, met \cup {p.val}))
        parsed(p) ==
            IF ~p.ok THEN stop("err")
            ELSE IF p.val \notin draftWorkflows
            THEN buildReferencesOfNode(Tail(ids), draftWorkflows, path, met)
            ELSE walk(p, UnmarshalString(draft[p.val].canvas))
    IN IF Len(ids) = 0 THEN stop("ok") ELSE parsed(ParseInt(Head(ids)))

validateAndBuildWorkflowReference(nodes, draftWorkflows, path, met) ==
    LET rest(inBlocks) ==
            IF inBlocks.status # "ok" THEN inBlocks
            ELSE validateAndBuildWorkflowReference(Tail(nodes), draftWorkflows, path,
                                                   inBlocks.met)
        blocks(own) ==
            IF own.status # "ok" THEN own
            ELSE rest(validateAndBuildWorkflowReference(Head(nodes).blocks, draftWorkflows,
                          path, own.met))
    IN IF Len(nodes) = 0 THEN [status |-> "ok", met |-> met]
       ELSE blocks(buildReferencesOfNode(nodeWorkflowIDs(Head(nodes)), draftWorkflows,
                                         path, met))

\* a faulty refWfs that holds no workflow
refWfsNone(canvasStr, draftWorkflows) == {}

\* the refWfs of a copied workflow: the draft workflows of the app its canvas refers to
refWfs(canvasStr, draftWorkflows) ==
    {r.referredID : r \in getRefFn(0, UnmarshalString(canvasStr).canvas.nodes, {}).refs}
        \cap draftWorkflows

\* CopyWorkflow into the target app (the library is app 0): a new workflow with a
\* draft of the modified canvas
CopyWorkflow(R, workflowID, targetAppID, modifiedCanvasSchema, d) ==
    LET copy(id, info) ==
            [R EXCEPT !.nextID = @ + 2,
                      !.meta = put(@, id, Meta(targetAppID, R.meta[workflowID].mode)),
                      !.draft = put(@, id, info),
                      !.versions = put(@, id, <<>>),
                      !.commitIDs = put(@, id, {info.commitID})]
    IN copy(R.nextID,
            DraftInfo(modifiedCanvasSchema, FALSE, d.inputParamsStr, d.outputParamsStr,
                      FormatInt(R.nextID + 1)))

\* copyAndPublishWorkflowProcess: the referred workflows first, in the order the
\* map yields them, then the workflow itself unless it is published already.
\* P is the state of the call: the repository, hasPublishedWorkflows, the
\* number of copies made and the error.
RECURSIVE copyAndPublishWorkflowProcess(_, _, _, _, _)
RECURSIVE copyReferred(_, _, _, _, _)
copyReferred(P, ids, draftWorkflows, order, failAt) ==
    IF Len(ids) = 0 \/ P.err # "none" THEN P
    ELSE copyReferred(copyAndPublishWorkflowProcess(P, Head(ids), draftWorkflows, order, failAt),
                      Tail(ids), draftWorkflows, order, failAt)

copyAndPublishWorkflowProcess(P, wfID, draftWorkflows, order, failAt) ==
    LET d == draft[wfID]
        vInfo(canvasString, commitID) ==
            [version |-> workflowPublishVersion, canvas |-> canvasString,
             commitID |-> commitID,
             inputParamsStr |-> d.inputParamsStr, outputParamsStr |-> d.outputParamsStr]
        publish(P1, cwf, canvasString, copied, wfRefs) ==
            IF ~wfRefs.ok THEN [P1 EXCEPT !.R = copied, !.err = "RefParse"]
            ELSE IF failAt = P1.copies + 1
            THEN [P1 EXCEPT !.R = copied, !.err = "OperationFail"]
            ELSE [R |-> CreateVersion(copied, cwf,
                            vInfo(canvasString, copied.draft[cwf].commitID), wfRefs.refs),
                  hasPublishedWorkflows |->
                      put(P1.hasPublishedWorkflows, wfID,
                          [id |-> cwf, version |-> workflowPublishVersion]),
                  copies |-> P1.copies + 1,
                  err |-> "none"]
        copy(P1, canvasString) ==
            IF P1.R.nextID + 1 > MaxCopyID THEN [P1 EXCEPT !.err = "exhausted"]
            ELSE publish(P1, P1.R.nextID, canvasString,
                         CopyWorkflow(P1.R, wfID, LibraryAppID, canvasString, d),
                         canvasToRefs(P1.R.nextID, canvasString))
        replace(P1, canvas, replaced) ==
            IF ~replaced.ok THEN [P1 EXCEPT !.err = "RefParse"]
            ELSE copy(P1, MarshalString(Canvas(replaced.nodes, canvas.canvas.edges)))
        parsed(P1, canvas) ==
            IF ~canvas.ok THEN [P1 EXCEPT !.err = "SerializationFail"]
            ELSE replace(P1, canvas,
                     replaceRelatedWorkflowOrExternalResourceInWorkflowNodes(
                         canvas.canvas.nodes, P1.hasPublishedWorkflows))
        own(P1) ==
            IF P1.err # "none" THEN P1
            ELSE IF wfID \in DOMAIN P1.hasPublishedWorkflows THEN P1
            ELSE parsed(P1, UnmarshalString(d.canvas))
        referred(S) ==
            LET IsReferred(id) == id \in S
            IN own(copyReferred(P, SelectSeq(order, IsReferred), draftWorkflows, order, failAt))
    IN referred(refWfs(d.canvas, draftWorkflows))

\* CopyWorkflowFromAppToLibrary up to its return
CopyOutcome(workflowID, appID, order, failAt) ==
    LET start == [R |-> Repo, hasPublishedWorkflows |-> <<>>, copies |-> 0, err |-> "none"]
        failed(err) == [start EXCEPT !.err = err]
        validate(built) ==
            IF built.status = "diverge" THEN failed("crash")
            ELSE IF built.status = "err" THEN failed("RefParse")
            ELSE IF \E id \in built.met : validateWorkflowTree(draft[id].canvas).err
            THEN failed("ValidateError")
            ELSE IF \E id \in built.met \cup {workflowID} :
                       validateWorkflowTree(draft[id].canvas).issues
            THEN failed("ValidationFailed")
            ELSE copyAndPublishWorkflowProcess(start, workflowID, MGetDrafts(appID),
                                               order, failAt)
        tree(draftVersion, v) ==
            IF v.err THEN failed("ValidateError")
            ELSE validate(validateAndBuildWorkflowReference(
                     UnmarshalString(draftVersion.draft.canvas).canvas.nodes,
                     MGetDrafts(appID), {workflowID}, {}))
        loaded(draftVersion) ==
            IF ~draftVersion.ok THEN failed("DraftNotFound")
            ELSE tree(draftVersion, validateWorkflowTree(draftVersion.draft.canvas))
    IN loaded(DraftV2(workflowID, <<>>))

\* CopyWorkflowFromAppToLibrary(workflowID, appID, related); order is the order
\* in which the maps of referred workflows are walked, failAt the copy whose
\* CreateVersion fails in the repository
CopyWorkflowFromAppToLibrary(workflowID, appID, order, failAt) ==
    LET apply(out) ==
            /\ out.err # "exhausted"
            /\ nextID' = out.R.nextID
            /\ meta' = out.R.meta
            /\ draft' = out.R.draft
            /\ versions' = out.R.versions
            /\ references' = out.R.references
            /\ commitIDs' = out.R.commitIDs
            /\ lastOp' = Call("CopyWorkflowFromAppToLibrary", out.err)
            /\ UNCHANGED <<pruneInput, pruneOutput, wfSchema, otherSchema, publishing, connectorVersions>>
    IN /\ workflowID \in WorkflowIDs
       /\ SeqToSet(order) = MGetDrafts(appID)
       /\ apply(CopyOutcome(workflowID, appID, order, failAt))

(***************************************************************************)
(* DuplicateWorkflowsByAppID                                               *)
(***************************************************************************)
\* buildWorkflowReference: the walk of validateAndBuildWorkflowReference without
\* the validation of the workflows met
buildWorkflowReference(nodes, draftWorkflows, path, met) ==
    validateAndBuildWorkflowReference(nodes, draftWorkflows, path, met)

\* duplicateWorkflow: the referred workflows first, in the order the map yields
\* them, then the workflow itself unless it is copied already.  P is the state of
\* the call: the repository, hasCopiedWorkflows and the error.
RECURSIVE duplicateWorkflow(_, _, _, _, _)
RECURSIVE duplicateReferred(_, _, _, _, _)
duplicateReferred(P, ids, targetAppID, draftWorkflows, order) ==
    IF Len(ids) = 0 \/ P.err # "none" THEN P
    ELSE duplicateReferred(duplicateWorkflow(P, Head(ids), targetAppID, draftWorkflows, order),
                           Tail(ids), targetAppID, draftWorkflows, order)

duplicateWorkflow(P, wfID, targetAppID, draftWorkflows, order) ==
    LET d == draft[wfID]
        copy(P1, canvasString) ==
            IF P1.R.nextID + 1 > MaxCopyID THEN [P1 EXCEPT !.err = "exhausted"]
            ELSE [R |-> CopyWorkflow(P1.R, wfID, targetAppID, canvasString, d),
                  hasCopiedWorkflows |->
                      put(P1.hasCopiedWorkflows, wfID, [id |-> P1.R.nextID, version |-> <<>>]),
                  err |-> "none"]
        replace(P1, canvas, replaced) ==
            IF ~replaced.ok THEN [P1 EXCEPT !.err = "RefParse"]
            ELSE copy(P1, MarshalString(Canvas(replaced.nodes, canvas.canvas.edges)))
        parsed(P1, canvas) ==
            IF ~canvas.ok THEN [P1 EXCEPT !.err = "SerializationFail"]
            ELSE replace(P1, canvas,
                     replaceRelatedWorkflowOrExternalResourceInWorkflowNodes(
                         canvas.canvas.nodes, P1.hasCopiedWorkflows))
        own(P1) ==
            IF P1.err # "none" THEN P1
            ELSE IF wfID \in DOMAIN P1.hasCopiedWorkflows THEN P1
            ELSE parsed(P1, UnmarshalString(d.canvas))
        referred(S) ==
            LET IsReferred(id) == id \in S
            IN own(duplicateReferred(P, SelectSeq(order, IsReferred), targetAppID,
                                     draftWorkflows, order))
    IN referred(refWfs(d.canvas, draftWorkflows))

\* duplicateWorkflowProcess: the reference tree of one workflow, then its copies;
\* the err "crash" is the stack overflow of a walk that does not end
duplicateWorkflowProcess(P, workflowID, targetAppID, draftWorkflows, order) ==
    LET duplicate(built) ==
            IF built.status = "diverge" THEN [P EXCEPT !.err = "crash"]
            ELSE IF built.status = "err" THEN [P EXCEPT !.err = "RefParse"]
            ELSE duplicateWorkflow(P, workflowID, targetAppID, draftWorkflows, order)
        parsed(draftCanvas) ==
            IF ~draftCanvas.ok THEN [P EXCEPT !.err = "SerializationFail"]
            ELSE duplicate(buildWorkflowReference(draftCanvas.canvas.nodes, draftWorkflows,
                                                  {workflowID}, {}))
    IN parsed(UnmarshalString(draft[workflowID].canvas))

\* DuplicateWorkflowsByAppID up to its return: the loop over the draft workflows
\* of the source app in the order the map yields them
RECURSIVE duplicateEach(_, _, _, _, _)
duplicateEach(P, ids, targetAppID, draftWorkflows, order) ==
    IF Len(ids) = 0 \/ P.err # "none" THEN P
    ELSE IF Head(ids) \in DOMAIN P.hasCopiedWorkflows
    THEN duplicateEach(P, Tail(ids), targetAppID, draftWorkflows, order)
    ELSE duplicateEach(duplicateWorkflowProcess(P, Head(ids), targetAppID, draftWorkflows, order),
                       Tail(ids), targetAppID, draftWorkflows, order)

DuplicateOutcome(sourceAppID, targetAppID, order) ==
    duplicateEach([R |-> Repo, hasCopiedWorkflows |-> <<>>, err |-> "none"],
                  order, targetAppID, MGetDrafts(sourceAppID), order)

\* DuplicateWorkflowsByAppID(sourceAppID, targetAppID, related); order is the
\* order in which the maps of workflows are walked
DuplicateWorkflowsByAppID(sourceAppID, targetAppID, order) ==
    LET apply(out) ==
            /\ out.err # "exhausted"
            /\ nextID' = out.R.nextID
            /\ meta' = out.R.meta
            /\ draft' = out.R.draft
            /\ versions' = out.R.versions
            /\ commitIDs' = out.R.commitIDs
            /\ lastOp' = Call("DuplicateWorkflowsByAppID", out.err)
            /\ UNCHANGED <<pruneInput, pruneOutput, wfSchema, otherSchema, publishing, references, connectorVersions>>
    IN /\ SeqToSet(order) = MGetDrafts(sourceAppID)
       /\ apply(DuplicateOutcome(sourceAppID, targetAppID, order))

(***************************************************************************)
(* WorkflowSchemaCheck                                                     *)
(***************************************************************************)
\* a faulty check that rejects no node
checkBotAgentNodeNone(node) == FALSE

\* checkBotAgentNode: the node is a conversation node
checkBotAgentNode(node) == node.type \in ConversationNodeTypes

\* the expansion of one reference of a node: the queue, the visited keys and
\* the keys expanded so far, or the error
expandReference(Q, workflowID, version) ==
    LET key(p) == <<p.val, version>>
        load(p, subWfEntity) ==
            IF ~subWfEntity.ok THEN Q
            ELSE IF ~UnmarshalString(subWfEntity.canvas).ok
            THEN [Q EXCEPT !.err = "Unmarshal"]
            ELSE [Q EXCEPT !.queue = @ \o UnmarshalString(subWfEntity.canvas).canvas.nodes,
                           !.visited = @ \cup {key(p)},
                           !.expanded = Append(@, key(p))]
        parsed(p) ==
            IF ~p.ok THEN [Q EXCEPT !.err = "InvalidID"]
            ELSE IF key(p) \in Q.visited THEN Q
            ELSE load(p, GetEntity(p.val, version))
    IN IF Len(workflowID) = 0 THEN Q ELSE parsed(ParseInt(workflowID))

\* the loop over the workflow tools of an LLM node
RECURSIVE expandWorkflowList(_, _)
expandWorkflowList(Q, workflowList) ==
    IF Len(workflowList) = 0 \/ Q.err # "none" THEN Q
    ELSE expandWorkflowList(
             expandReference(Q, Head(workflowList).workflowID, Head(workflowList).workflowVersion),
             Tail(workflowList))

\* validateNodesRecursively with the BotAgent check: the walk of the queue, the
\* blocks of a node and the nodes of the canvases it refers to appended to it
RECURSIVE validateNodesRecursively(_)
validateNodesRecursively(Q) ==
    LET node == Head(Q.queue)
        rest == [Q EXCEPT !.queue = Tail(@) \o node.blocks]
        next(Q1) == IF Q1.err # "none" THEN Q1 ELSE validateNodesRecursively(Q1)
    IN IF Len(Q.queue) = 0 THEN Q
       ELSE IF checkBotAgentNode(node) THEN [Q EXCEPT !.err = "Conversation"]
       ELSE IF node.type = NodeTypeSubWorkflow
       THEN next(expandReference(rest, node.workflowID, node.workflowVersion))
       ELSE IF node.type = NodeTypeLLM THEN next(expandWorkflowList(rest, node.workflowList))
       ELSE validateNodesRecursively(rest)

\* WorkflowSchemaCheck(wf, {BotAgent}) for the workflow entity of (id, version):
\* whether the canvas can be read, IsPass, and the keys the walk expanded
SchemaCheckOutcome(id, version) ==
    LET wf == GetEntity(id, version)
        result(Q) == [ok |-> TRUE, isPass |-> Q.err = "none", reason |-> Q.err,
                      expanded |-> Q.expanded]
    IN IF ~UnmarshalString(wf.canvas).ok
       THEN [ok |-> FALSE, isPass |-> FALSE, reason |-> "Unmarshal", expanded |-> <<>>]
       ELSE result(validateNodesRecursively(
                [queue |-> UnmarshalString(wf.canvas).canvas.nodes,
                 visited |-> {<<id, version>>}, expanded |-> <<>>, err |-> "none"]))

\* WorkflowSchemaCheck changes nothing; the last call records its result
WorkflowSchemaCheck(id, version) ==
    LET apply(out) ==
            /\ lastOp' = Call("WorkflowSchemaCheck",
                               IF ~out.ok THEN "Unmarshal"
                               ELSE IF out.isPass THEN "none" ELSE "NotPass")
            /\ UNCHANGED <<pruneInput, pruneOutput, wfSchema, otherSchema, publishing, nextID, meta, draft, versions, references, connectorVersions,
                           commitIDs>>
    IN /\ GetEntity(id, version).ok
       /\ apply(SchemaCheckOutcome(id, version))

(***************************************************************************)
(* SyncRelatedWorkflowResources                                            *)
(***************************************************************************)
\* the last id the id generator hands out as a commit id of a synced draft
MaxCommitID == 8

\* SyncRelatedWorkflowResources up to its return.  order is the order in which
\* the map of drafts is walked.  The goroutines share the variable err: when the
\* rewriting of some canvas fails, what each goroutine reads from it depends on
\* the schedule, and so does whether it writes its draft; done holds the
\* workflows whose goroutine goes on to write.  The same holds for the
\* goroutines started before the loop runs out of commit ids and panics.
SyncOutcome(appID, relatedWorkflows, order, done) ==
    LET count == Len(order) - Cardinality(DOMAIN relatedWorkflows)
        IsOther(id) == id \notin DOMAIN relatedWorkflows
        others == SelectSeq(order, IsOther)
        launched == {others[k] : k \in 1..(IF count < Len(others) THEN count ELSE Len(others))}
        idx(id) == CHOOSE k \in 1..Len(others) : others[k] = id
        rewritten(id, u) ==
            replaceRelatedWorkflowOrExternalResourceInWorkflowNodes(
                IF u.ok THEN u.canvas.nodes ELSE <<>>, relatedWorkflows)
        modifiedCanvasString(id, u) ==
            MarshalString(Canvas(rewritten(id, u).nodes, IF u.ok THEN u.canvas.edges ELSE <<>>))
        info(id) ==
            [canvas |-> modifiedCanvasString(id, UnmarshalString(draft[id].canvas)),
             testRunSuccess |-> FALSE, modified |-> TRUE,
             inputParamsStr |-> draft[id].inputParamsStr,
             outputParamsStr |-> draft[id].outputParamsStr,
             commitID |-> FormatInt(nextID + idx(id) - 1)]
        failing == {id \in launched : ~rewritten(id, UnmarshalString(draft[id].canvas)).ok}
        write(written, err) ==
            [R |-> [Repo EXCEPT
                      !.nextID = @ + count,
                      !.draft = [id \in DOMAIN draft |->
                                   IF id \in written THEN info(id) ELSE draft[id]],
                      !.commitIDs = [id \in DOMAIN commitIDs |->
                                       IF id \in written
                                       THEN commitIDs[id] \cup {info(id).commitID}
                                       ELSE commitIDs[id]]],
             err |-> err, usesIDs |-> count]
        raced(written) ==
            write(written, IF written = launched THEN "none" ELSE "RefParse")
    IN IF count < 0 THEN [R |-> Repo, err |-> "IDGenError", usesIDs |-> 0]
       ELSE IF count < Len(others) THEN write(done \cap launched, "panic")
       ELSE IF failing = {} THEN write(launched, "none")
       ELSE IF Cardinality(launched) = 1 THEN write({}, "RefParse")
       ELSE raced(done \cap launched)

\* SyncRelatedWorkflowResources(appID, relatedWorkflows, related)
SyncRelatedWorkflowResources(appID, relatedWorkflows, order, done) ==
    LET apply(out) ==
            /\ nextID + out.usesIDs - 1 <= MaxCommitID
            /\ nextID' = out.R.nextID
            /\ draft' = out.R.draft
            /\ commitIDs' = out.R.commitIDs
            /\ lastOp' = Call("SyncRelatedWorkflowResources", out.err)
            /\ UNCHANGED <<pruneInput, pruneOutput, wfSchema, otherSchema, publishing, meta, versions, references, connectorVersions>>
    IN /\ SeqToSet(order) = MGetDrafts(appID)
       /\ apply(SyncOutcome(appID, relatedWorkflows, order, done))

(***************************************************************************)
(* Inputs of the calls: canvases, version strings.                         *)
(***************************************************************************)
EntryNode == [Node(EntryNodeKey, NodeTypeEntry, "Start") EXCEPT !.outputs = <<"input">>]

ExitNode == [Node(ExitNodeKey, NodeTypeExit, "End") EXCEPT !.inputParameters = <<"output">>]

\* the default init canvas: entry and exit, connected
PlainCanvas ==
    MarshalString(Canvas(<<EntryNode, ExitNode>>,
                         <<Edge(EntryNodeKey, ExitNodeKey, <<>>, <<>>)>>))

\* one more node between entry and exit; without its edges when not linked
MiddleCanvas(node, linked) ==
    MarshalString(Canvas(<<EntryNode, node, ExitNode>>,
        IF linked
        THEN <<Edge(EntryNodeKey, node.id, <<>>, <<>>), Edge(node.id, ExitNodeKey, <<>>, <<>>)>>
        ELSE <<Edge(EntryNodeKey, ExitNodeKey, <<>>, <<>>)>>))

SubWorkflowNode(id, title, workflowID, workflowVersion) ==
    [Node(id, NodeTypeSubWorkflow, title) EXCEPT
        !.workflowID = workflowID, !.workflowVersion = workflowVersion]

LLMNode(id, workflowID) ==
    [Node(id, NodeTypeLLM, "LLM") EXCEPT
        !.workflowList = <<[workflowID |-> workflowID, workflowVersion |-> <<>>]>>]

\* a loop whose single block is the given node
LoopNode(id, block) ==
    [Node(id, NodeTypeLoop, "Loop") EXCEPT !.blocks = <<block>>]

\* canvases with a sub-workflow node under either title
TitledCanvasInputs(ids) ==
    {MiddleCanvas(SubWorkflowNode("s1", t, FormatInt(w), <<>>), TRUE) :
        t \in {"Sub", "Renamed"}, w \in ids}

\* canvases with a sub-workflow node per workflow, and one whose sub-workflow
\* id is no number
RefCanvasInputs(ids) ==
    {MiddleCanvas(SubWorkflowNode("s1", "Sub", FormatInt(w), <<>>), TRUE) : w \in ids}
    \cup {MiddleCanvas(SubWorkflowNode("s1", "Sub", <<"x">>, <<>>), TRUE)}

\* canvases to release: a sub-workflow node per workflow, and a workflow tool of
\* an LLM node inside a loop
ReleaseCanvasInputs(ids) ==
    {MiddleCanvas(SubWorkflowNode("s1", "Sub", FormatInt(w), <<>>), TRUE) : w \in ids}
    \cup {MiddleCanvas(LoopNode("l1", LLMNode("m1", FormatInt(1))), TRUE)}

\* the version strings a caller publishes with
VersionInputs ==
    {<<"v", "0", ".", "0", ".", "1">>,
     <<"v", "0", ".", "0", ".", "2">>,
     <<"v", "0", ".", "0", ".", "1", "0">>}

(***************************************************************************)
(* Specifications                                                          *)
(***************************************************************************)
AppID == 7

\* the app the workflows are duplicated into
TargetAppID == AppID + 1

SaveFailures == {"none", "idgen", "repo"}

ConnectorIDInputs == {{}, {1}}

\* the init canvas of a new workflow: the default one, or one that calls an
\* existing workflow
InitCanvasInputs ==
    {PlainCanvas}
    \cup {MiddleCanvas(SubWorkflowNode("s1", "Sub", FormatInt(w), <<>>), TRUE) : w \in WorkflowIDs}

\* the canvases Save is called with in the draft lifecycle: the default one, one
\* with an added node that no edge reaches, with an added node between entry and
\* exit, with a node of no known type, invalid JSON, and the titled ones
DraftCanvasInputs(ids) ==
    {PlainCanvas, InvalidJSON,
     MiddleCanvas(Node("n1", NodeTypeCodeRunner, "Code"), FALSE),
     MiddleCanvas(Node("n1", NodeTypeCodeRunner, "Code"), TRUE),
     MiddleCanvas(Node("n1", "Unknown", "Unknown"), TRUE)}
    \cup TitledCanvasInputs(ids)

\* the draft lifecycle: Create, Save, the test run and the switch to ChatFlow
NextDraft ==
    \/ \E c \in InitCanvasInputs : Create(LibraryAppID, c, "none")
    \/ \E id \in WorkflowIDs, fail \in SaveFailures :
          \E c \in DraftCanvasInputs(WorkflowIDs) : Save(id, c, fail)
    \/ \E id \in WorkflowIDs : TestRun(id)
    \/ \E id \in WorkflowIDs, fail \in SaveFailures : UpdateMeta(id, ModeChatFlow, fail)

SpecDraft == Init /\ [][NextDraft]_vars

\* a publish policy: forced or not, with the commit id of no draft, or with a
\* repository that fails
PublishInputs ==
    {[force |-> FALSE, commitID |-> <<>>, repoFail |-> FALSE],
     [force |-> TRUE, commitID |-> <<>>, repoFail |-> FALSE],
     [force |-> TRUE, commitID |-> FormatInt(0), repoFail |-> FALSE],
     [force |-> TRUE, commitID |-> <<>>, repoFail |-> TRUE]}

\* the publish lifecycle: drafts with references, the test run and Publish
Next ==
    \/ \E c \in InitCanvasInputs : Create(AppID, c, "none")
    \/ \E id \in WorkflowIDs : \E c \in RefCanvasInputs(WorkflowIDs) : Save(id, c, "none")
    \/ \E id \in WorkflowIDs : TestRun(id)
    \/ \E id \in WorkflowIDs, version \in VersionInputs, policy \in PublishInputs :
          Publish(id, version, policy.force, policy.commitID, policy.repoFail)

Spec == Init /\ [][Next]_vars

\* the creation lifecycle: Create and Save with canvases that parse and that do
\* not, with and without a failure of the id generator or of the repository
NextCreate ==
    \/ \E c \in {PlainCanvas, InvalidJSON}, fail \in SaveFailures : Create(AppID, c, fail)
    \/ \E id \in WorkflowIDs, fail \in SaveFailures :
          \E c \in {PlainCanvas, InvalidJSON} : Save(id, c, fail)

SpecCreate == Init /\ [][NextCreate]_vars

\* version strings that are not of the form vA.B.C: without the v, and with a
\* part that is no number
MalformedVersionInputs ==
    {<<"1", ".", "0", ".", "0">>,
     <<"v", "1", ".", "x", ".", "0">>}

\* the version lifecycle: workflows are created and published under version
\* strings of either kind
NextVersion ==
    \/ Create(AppID, PlainCanvas, "none")
    \/ \E id \in WorkflowIDs, version \in VersionInputs \cup MalformedVersionInputs :
          Publish(id, version, TRUE, <<>>, FALSE)

SpecVersion == Init /\ [][NextVersion]_vars

\* callers of Publish running beside each other on the drafts of the app
NextPublish ==
    \/ \E c \in InitCanvasInputs : Create(AppID, c, "none")
    \/ \E id \in WorkflowIDs : TestRun(id)
    \/ \E id \in WorkflowIDs, version \in VersionInputs, force \in BOOLEAN :
          PublishBegin(id, version, force, <<>>)
    \/ \E call \in publishing : PublishCreateVersion(call)

SpecPublish == Init /\ [][NextPublish]_vars

\* the version strings of the release lifecycle
ReleaseVersionInputs == {<<"v", "0", ".", "0", ".", "1">>, <<"v", "0", ".", "0", ".", "2">>}

\* the release lifecycle: every operation that creates version records
NextRelease ==
    \/ Create(AppID, PlainCanvas, "none")
    \/ \E id \in WorkflowIDs : \E c \in ReleaseCanvasInputs(WorkflowIDs) : Save(id, c, "none")
    \/ \E id \in WorkflowIDs, version \in ReleaseVersionInputs :
          Publish(id, version, TRUE, <<>>, FALSE)
    \/ \E version \in ReleaseVersionInputs, connectorIDs \in ConnectorIDInputs, failAt \in 0..1 :
          \E order \in Orders(MGetDrafts(AppID)) :
             ReleaseApplicationWorkflows(AppID, version, connectorIDs, {}, order, failAt)
    \/ \E workflowID \in WorkflowIDs, failAt \in 0..1 :
          \E order \in Orders(MGetDrafts(AppID)) :
             /\ CopyWorkflowFromAppToLibrary(workflowID, AppID, order, failAt)
             /\ nextID' <= MaxID + 1

SpecRelease == Init /\ [][NextRelease]_vars

\* the canvases Save is called with in the connector lifecycle: the default one
\* and one with a node of no known type
BindCanvasInputs == {PlainCanvas, MiddleCanvas(Node("n1", "Unknown", "Unknown"), TRUE)}

\* the connector id lists of a release in the connector lifecycle
BindConnectorInputs == {{}, {1, 2}}

\* the connector lifecycle: workflows of the app are created, saved, published
\* one by one and released together or in part to connectors
NextBind ==
    \/ Create(AppID, PlainCanvas, "none")
    \/ \E id \in WorkflowIDs : \E c \in BindCanvasInputs : Save(id, c, "none")
    \/ \E id \in WorkflowIDs : Publish(id, workflowPublishVersion, TRUE, <<>>, FALSE)
    \/ \E version \in ReleaseVersionInputs, connectorIDs \in BindConnectorInputs, failAt \in 0..1 :
          \E workflowIDs \in SUBSET MGetDrafts(AppID) :
             \E order \in Orders(IF workflowIDs = {} THEN MGetDrafts(AppID) ELSE workflowIDs) :
                ReleaseApplicationWorkflows(AppID, version, connectorIDs, workflowIDs, order,
                                            failAt)

SpecBind == Init /\ [][NextBind]_vars

\* entry -> a -> b -> exit
TwoNodeCanvas(a, b) ==
    MarshalString(Canvas(<<EntryNode, a, b, ExitNode>>,
                         <<Edge(EntryNodeKey, a.id, <<>>, <<>>), Edge(a.id, b.id, <<>>, <<>>),
                           Edge(b.id, ExitNodeKey, <<>>, <<>>)>>))

\* the init canvases of the workflows of the app in the copy lifecycle: the
\* default one, one with a node of no known type, one that calls an existing
\* workflow, one that calls an existing workflow and has another as the workflow
\* tool of an LLM node inside a loop
CopyCanvasInputs ==
    {PlainCanvas, MiddleCanvas(Node("n1", "Unknown", "Unknown"), TRUE)}
    \cup {MiddleCanvas(SubWorkflowNode("s1", "Sub", FormatInt(w), <<>>), TRUE) :
             w \in WorkflowIDs}
    \cup {TwoNodeCanvas(SubWorkflowNode("s1", "Sub", FormatInt(w1), <<>>),
                        LoopNode("l1", LLMNode("m1", FormatInt(w2)))) :
             <<w1, w2>> \in {p \in WorkflowIDs \X WorkflowIDs : p[1] # p[2]}}

\* the copy lifecycle: workflows of the app are created, and copied into the library
NextCopy ==
    \/ \E c \in CopyCanvasInputs : CreateWithin(MaxSourceID, AppID, c, "none")
    \/ \E workflowID \in MGetDrafts(AppID), failAt \in 0..1 :
          \E order \in Orders(MGetDrafts(AppID)) :
             CopyWorkflowFromAppToLibrary(workflowID, AppID, order, failAt)

SpecCopy == Init /\ [][NextCopy]_vars

\* the canvases of the duplication lifecycle: the default one, one that calls a
\* workflow of the app, one with a workflow of the app as the workflow tool of an
\* LLM node inside a loop
DuplicateCanvasInputs ==
    {PlainCanvas}
    \cup {MiddleCanvas(SubWorkflowNode("s1", "Sub", FormatInt(w), <<>>), TRUE) :
             w \in MGetDrafts(AppID)}
    \cup {MiddleCanvas(LoopNode("l1", LLMNode("m1", FormatInt(w))), TRUE) :
             w \in MGetDrafts(AppID)}

\* the duplication lifecycle: workflows of the app are created and saved, copied
\* into the library and duplicated into another app
NextDuplicate ==
    \/ \E c \in DuplicateCanvasInputs : CreateWithin(MaxSourceID, AppID, c, "none")
    \/ \E id \in MGetDrafts(AppID) : \E c \in DuplicateCanvasInputs : Save(id, c, "none")
    \/ \E workflowID \in MGetDrafts(AppID) : \E order \in Orders(MGetDrafts(AppID)) :
          CopyWorkflowFromAppToLibrary(workflowID, AppID, order, 0)
    \/ \E order \in Orders(MGetDrafts(AppID)) :
          DuplicateWorkflowsByAppID(AppID, TargetAppID, order)

SpecDuplicate == Init /\ [][NextDuplicate]_vars

\* the init canvases of the check lifecycle: the default one, one with a
\* conversation node in a loop, one that calls the version of a workflow, one
\* that calls the draft of a workflow and then has a conversation node
CheckInitCanvasInputs(ids) ==
    {PlainCanvas,
     MiddleCanvas(LoopNode("l1", Node("c1", "CreateConversation", "Create")), TRUE)}
    \cup {MiddleCanvas(SubWorkflowNode("s1", "Sub", FormatInt(w), workflowPublishVersion), TRUE) :
             w \in ids}
    \cup {TwoNodeCanvas(SubWorkflowNode("s1", "Sub", FormatInt(w), <<>>),
                        Node("c1", "ConversationList", "List")) : w \in ids}

\* the canvases Save is called with in the check lifecycle: one with a
\* conversation node, one with a conversation history node, and canvases that
\* refer to a workflow: its draft or its version, by a sub-workflow node or an
\* LLM workflow tool in a loop, or by an id that is no number, and one that
\* refers to one workflow by a sub-workflow node, by a second one in a loop and
\* twice by the workflow tools of an LLM node in a loop in the loop
CheckCanvasInputs(ids) ==
    {MiddleCanvas(Node("c1", "ConversationUpdate", "Update"), TRUE),
     MiddleCanvas(Node("h1", NodeTypeConversationHistory, "History"), TRUE),
     MiddleCanvas(SubWorkflowNode("s1", "Sub", <<"x">>, <<>>), TRUE)}
    \cup {MiddleCanvas(SubWorkflowNode("s1", "Sub", FormatInt(w), v), TRUE) :
             w \in ids, v \in {<<>>, workflowPublishVersion}}
    \cup {MiddleCanvas(LoopNode("l1", LLMNode("m1", FormatInt(w))), TRUE) : w \in ids}
    \cup {MiddleCanvas(LoopNode("l1", LLMNode("m1", <<"x">>)), TRUE)}
    \cup {TwoNodeCanvas(SubWorkflowNode("s1", "Sub", FormatInt(w), <<>>),
                        [LoopNode("l1", LoopNode("l2",
                             [LLMNode("m1", FormatInt(w)) EXCEPT !.workflowList = @ \o @]))
                            EXCEPT !.blocks = <<SubWorkflowNode("s2", "Sub", FormatInt(w), <<>>)>> \o @]) :
             w \in ids}

\* the check lifecycle: workflows are created, saved, published and checked
NextCheck ==
    \/ \E c \in CheckInitCanvasInputs(WorkflowIDs) : Create(LibraryAppID, c, "none")
    \/ \E id \in WorkflowIDs : \E c \in CheckCanvasInputs(WorkflowIDs) : Save(id, c, "none")
    \/ \E id \in WorkflowIDs :
          /\ Len(versions[id]) = 0
          /\ Publish(id, workflowPublishVersion, TRUE, <<>>, FALSE)
    \/ \E id \in WorkflowIDs, version \in {<<>>, workflowPublishVersion} :
          WorkflowSchemaCheck(id, version)

SpecCheck == Init /\ [][NextCheck]_vars

\* a canvas whose entry node has these outputs
EntryOutputsCanvas(outputs) ==
    MarshalString(Canvas(<<[EntryNode EXCEPT !.outputs = outputs], ExitNode>>,
                         <<Edge(EntryNodeKey, ExitNodeKey, <<>>, <<>>)>>))

\* the canvases of the chat lifecycle: entry nodes without the chat variables,
\* with one of them, with both, with one of them twice, and no entry node
ChatCanvasInputs ==
    {EntryOutputsCanvas(outputs) :
        outputs \in {<<"input">>, <<UserInputKey>>, <<"input", ConversationNameKey>>,
                     <<UserInputKey, "input", ConversationNameKey>>,
                     <<UserInputKey, UserInputKey>>}}
    \cup {MarshalString(Canvas(<<ExitNode>>, <<>>))}

\* the chat lifecycle: one workflow is created, saved and switched to ChatFlow
NextChat ==
    \/ WorkflowIDs = {} /\ Create(LibraryAppID, PlainCanvas, "none")
    \/ \E id \in WorkflowIDs : \E c \in ChatCanvasInputs : Save(id, c, "none")
    \/ \E id \in WorkflowIDs : TestRun(id)
    \/ \E id \in WorkflowIDs, mode \in {ModeWorkflow, ModeChatFlow}, fail \in SaveFailures :
          UpdateMeta(id, mode, fail)

SpecChat == Init /\ [][NextChat]_vars

\* the (id, version) of a workflow of the library that related workflows map to
LibraryPair == [id |-> 8, version |-> workflowPublishVersion]

\* the maps of related workflows: empty, of the first workflow of the app, of a
\* workflow that is none of the app, of both
RelatedWorkflowInputs == {[id \in S |-> LibraryPair] : S \in {{}, {1}, {9}, {1, 9}}}

\* the init canvases of the sync lifecycle: the default one, one that calls an
\* existing workflow, one with an existing workflow as the workflow tool of an LLM
\* node inside a loop, one that calls a workflow whose id is no number and then
\* an existing workflow
SyncCanvasInputs ==
    {PlainCanvas}
    \cup {MiddleCanvas(SubWorkflowNode("s1", "Sub", FormatInt(w), <<>>), TRUE) :
             w \in WorkflowIDs}
    \cup {MiddleCanvas(LoopNode("l1", LLMNode("m1", FormatInt(w))), TRUE) : w \in WorkflowIDs}
    \cup {TwoNodeCanvas(SubWorkflowNode("s1", "Sub", <<"x">>, <<>>),
                        SubWorkflowNode("s2", "Sub", FormatInt(w), <<>>)) : w \in WorkflowIDs}

\* the sync lifecycle: workflows of the app are created, and the drafts of the
\* app are synced with maps of related workflows
NextSync ==
    \/ \E c \in SyncCanvasInputs : CreateWithin(MaxSourceID, AppID, c, "none")
    \/ \E relatedWorkflows \in RelatedWorkflowInputs, done \in SUBSET MGetDrafts(AppID) :
          \E order \in Orders(MGetDrafts(AppID)) :
             SyncRelatedWorkflowResources(AppID, relatedWorkflows, order, done)

SpecSync == Init /\ [][NextSync]_vars

\* a code node with error handling settings
ExceptionNode(switch, processType, dataOnErr) ==
    [Node("n1", NodeTypeCodeRunner, "Code") EXCEPT
        !.settingOnError = SettingOnError(switch, processType, dataOnErr)]

\* entry -> selector c1, and an edge from c1 to the exit on each of the ports
SelectorCanvas(ports) ==
    MarshalString(Canvas(<<EntryNode, Node("c1", NodeTypeSelector, "If"), ExitNode>>,
        <<Edge(EntryNodeKey, "c1", <<>>, <<>>)>>
            \o [k \in 1..Len(ports) |-> Edge("c1", ExitNodeKey, ports[k], <<>>)]))

\* the default canvas with one more edge
ExtraEdgeCanvas(source, target) ==
    MarshalString(Canvas(<<EntryNode, ExitNode>>,
                         <<Edge(EntryNodeKey, ExitNodeKey, <<>>, <<>>),
                           Edge(source, target, <<>>, <<>>)>>))

\* entry -> node, and an edge from the node to the exit on the port
PortCanvas(node, port) ==
    MarshalString(Canvas(<<EntryNode, node, ExitNode>>,
        <<Edge(EntryNodeKey, node.id, <<>>, <<>>), Edge(node.id, ExitNodeKey, port, <<>>)>>))

\* a loop l1 around the code node m1, with the edges of the loop body
LoopBodyNode(edges) ==
    [LoopNode("l1", Node("m1", NodeTypeCodeRunner, "Code")) EXCEPT !.edges = edges]

\* the code node n1 in batch mode, its single output of the given type
BatchModeNode(type, elementType) ==
    [Node("n1", NodeTypeCodeRunner, "Code") EXCEPT
        !.inputParameters = <<"item">>,
        !.outputs = <<"results">>,
        !.outputVariable = Variable(type, elementType, <<"result">>),
        !.nodeBatchInfo = NodeBatchInfo(TRUE, <<"items">>)]

\* entry -> l1 -> n1 -> exit
TwoMiddleCanvas(first, second) ==
    MarshalString(Canvas(<<EntryNode, first, second, ExitNode>>,
        <<Edge(EntryNodeKey, first.id, <<>>, <<>>), Edge(first.id, second.id, <<>>, <<>>),
          Edge(second.id, ExitNodeKey, <<>>, <<>>)>>))

\* the canvases Save is called with in the compilation lifecycle: error handling
\* settings with and without data, edges from and to ids of no node, a comment
\* between entry and exit, loops with a break, with body edges and with a body
\* edge to an id of no node, selectors with several port sets, a sub-workflow,
\* a loop with inline port edges before a node in batch mode, a loop and a code
\* node with an edge on a port of theirs, batch mode with
\* an output of no list, with two outputs and with none, with error handling
\* settings, on a node without edges and on the block of a loop
CompileCanvasInputs ==
    {PlainCanvas,
     MiddleCanvas(ExceptionNode(TRUE, ErrorProcessTypeReturnDefaultData, <<>>), TRUE),
     MiddleCanvas(ExceptionNode(TRUE, ErrorProcessTypeReturnDefaultData, <<"d">>), TRUE),
     MiddleCanvas(ExceptionNode(TRUE, 0, <<"d">>), TRUE),
     MiddleCanvas(ExceptionNode(FALSE, ErrorProcessTypeThrow, <<>>), TRUE),
     MiddleCanvas(ExceptionNode(FALSE, 0, <<"d">>), TRUE),
     ExtraEdgeCanvas(EntryNodeKey, "ghost"),
     ExtraEdgeCanvas("ghost", ExitNodeKey),
     MiddleCanvas(Node("n1", NodeTypeComment, "Note"), TRUE),
     MiddleCanvas(LoopNode("l1", Node("b1", NodeTypeBreak, "Break")), TRUE),
     MiddleCanvas(LoopBodyNode(
         <<Edge("l1", "m1", <<"l", "o", "o", "p", "-", "f", "u", "n", "c", "t", "i", "o", "n", "-", "i", "n", "l", "i", "n", "e", "-", "o", "u", "t", "p", "u", "t">>, <<>>),
           Edge("m1", "l1", <<"o">>,
                <<"l", "o", "o", "p", "-", "f", "u", "n", "c", "t", "i", "o", "n", "-", "i", "n", "l", "i", "n", "e", "-", "i", "n", "p", "u", "t">>)>>), TRUE),
     MiddleCanvas(LoopBodyNode(<<Edge("l1", "m1", <<>>, <<>>), Edge("m1", "ghost", <<>>, <<>>)>>),
                  TRUE),
     SelectorCanvas(<<PortTrue, PortFalse>>),
     SelectorCanvas(<<PortTrue, PortTruePrefix \o FormatInt(1), PortFalse>>),
     SelectorCanvas(<<PortTruePrefix \o FormatInt(2), PortFalse>>),
     SelectorCanvas(<<PortTruePrefix \o <<"x">>>>),
     SelectorCanvas(<<<<"e", "l", "s", "e">>>>),
     MiddleCanvas(SubWorkflowNode("s1", "Sub", FormatInt(1), <<>>), TRUE),
     MiddleCanvas(BatchModeNode(VariableTypeList, VariableTypeObject), TRUE),
     MiddleCanvas(BatchModeNode(VariableTypeList, VariableTypeString), TRUE),
     TwoMiddleCanvas(LoopBodyNode(<<Edge("l1", "m1", <<>>, <<>>)>>),
                     BatchModeNode(VariableTypeList, VariableTypeObject)),
     TwoMiddleCanvas(LoopBodyNode(
         <<Edge("l1", "m1", <<"l", "o", "o", "p", "-", "f", "u", "n", "c", "t", "i", "o", "n", "-", "i", "n", "l", "i", "n", "e", "-", "o", "u", "t", "p", "u", "t">>, <<>>),
           Edge("m1", "l1", <<"o">>,
                <<"l", "o", "o", "p", "-", "f", "u", "n", "c", "t", "i", "o", "n", "-", "i", "n", "l", "i", "n", "e", "-", "i", "n", "p", "u", "t">>)>>),
                     BatchModeNode(VariableTypeList, VariableTypeObject)),
     PortCanvas(LoopNode("l1", Node("b1", NodeTypeBreak, "Break")),
                <<"l", "o", "o", "p", "-", "o", "u", "t", "p", "u", "t">>),
     PortCanvas(Node("n1", NodeTypeCodeRunner, "Code"), <<"o", "u", "t">>),
     MiddleCanvas(BatchModeNode(VariableTypeString, ""), TRUE),
     MiddleCanvas([BatchModeNode(VariableTypeList, VariableTypeObject) EXCEPT
                      !.outputs = <<"results", "more">>], TRUE),
     MiddleCanvas([BatchModeNode(VariableTypeList, VariableTypeObject) EXCEPT
                      !.outputs = <<>>], TRUE),
     MiddleCanvas([BatchModeNode(VariableTypeList, VariableTypeObject) EXCEPT
                      !.settingOnError = SettingOnError(TRUE, 0, <<"d">>)], TRUE),
     MiddleCanvas(BatchModeNode(VariableTypeList, VariableTypeObject), FALSE),
     MiddleCanvas(LoopNode("l1", BatchModeNode(VariableTypeList, VariableTypeObject)), TRUE)}

\* the compilation lifecycle of one workflow: Create, Save of canvases that
\* exercise the compiler, the test run and Publish
NextCompile ==
    \/ WorkflowIDs = {} /\ Create(AppID, PlainCanvas, "none")
    \/ \E id \in WorkflowIDs : \E c \in CompileCanvasInputs : Save(id, c, "none")
    \/ \E id \in WorkflowIDs : TestRun(id)
    \/ \E id \in WorkflowIDs, force \in BOOLEAN :
          Publish(id, workflowPublishVersion, force, <<>>, FALSE)

SpecCompile == Init /\ [][NextCompile]_vars

\* the service before any call, without the schemas
InitService ==
    /\ nextID = 1
    /\ meta = <<>>
    /\ draft = <<>>
    /\ versions = <<>>
    /\ references = {}
    /\ connectorVersions = {}
    /\ commitIDs = <<>>
    /\ lastOp = Call("none", "none")
    /\ publishing = {}

\* the node a, and the same node with one field changed: the name, the type, the
\* configs, the input types, the input sources, the output types, the exception
\* configs, the sub-workflow identity, the stream configs
EqualNodeInputs ==
    LET a == NodeSchema("a", NodeTypeLLM, "A", NodeConfigs(0, <<>>, <<>>),
                        <<"in">>, <<"out">>, NoWorkflowBasic)
    IN {a,
        [a EXCEPT !.name = "B"],
        [a EXCEPT !.type = NodeTypeCodeRunner],
        [a EXCEPT !.configs.workflowList = <<[workflowID |-> <<"1">>, workflowVersion |-> <<>>]>>],
        [a EXCEPT !.inputs = <<"in", "more">>],
        [a EXCEPT !.inputSources = <<[fromNodeKey |-> "b"]>>],
        [a EXCEPT !.outputs = <<>>],
        [a EXCEPT !.exceptionConfigs = ExceptionConfig(1000, 1, <<>>, ErrorProcessTypeThrow)],
        [a EXCEPT !.subWorkflowBasic = WorkflowBasic(1, <<>>, <<"1">>)],
        [a EXCEPT !.streamConfigs = StreamConfig(TRUE, FALSE)]}

\* the lists of connections between a and b: none, one, the same one twice, two
\* in either order, one with an empty port, one with a port
EqualConnectionInputs ==
    LET ab == Connection("a", "b", FALSE, <<>>)
        ba == Connection("b", "a", FALSE, <<>>)
    IN {<<>>, <<ab>>, <<ab, ab>>, <<ab, ba>>, <<ba, ab>>,
        <<Connection("a", "b", TRUE, <<>>)>>,
        <<Connection("a", "b", TRUE, PortDefault)>>}

\* the schemas IsEqual is called with: no node, a, b, and a and b in either order
EqualSchemaInputs ==
    LET b == NodeSchema("b", NodeTypeCodeRunner, "B", NodeConfigs(0, <<>>, <<>>),
                        <<>>, <<>>, NoWorkflowBasic)
        nodeLists == {<<>>, <<b>>} \cup {<<a>> : a \in EqualNodeInputs}
                        \cup {<<a, b>> : a \in EqualNodeInputs}
                        \cup {<<b, a>> : a \in EqualNodeInputs}
    IN {Compiled("ok", nodes, connections, {}) :
           nodes \in nodeLists, connections \in EqualConnectionInputs}

InitEqual ==
    /\ InitService
    /\ pruneInput = Canvas(<<>>, <<>>)
    /\ pruneOutput = NotPruned
    /\ wfSchema \in EqualSchemaInputs
    /\ otherSchema \in EqualSchemaInputs

\* w.IsEqual(other) for the two schemas
CompareSchemas ==
    /\ lastOp.op # "IsEqual"
    /\ lastOp' = Call("IsEqual", IF IsEqual(wfSchema, otherSchema) THEN "true" ELSE "false")
    /\ UNCHANGED <<nextID, meta, draft, versions, references, connectorVersions, commitIDs,
                   publishing, wfSchema, otherSchema,
                   pruneInput, pruneOutput>>

NextEqual == CompareSchemas

SpecEqual == InitEqual /\ [][NextEqual]_vars

\* the most nodes of a schema that Init is called on
MaxSchemaNodes == 3

SchemaKeys == <<"a", "b", "c", "d">>

PlainNodeSchema(key) ==
    NodeSchema(key, NodeTypeCodeRunner, "Code", NodeConfigs(0, <<>>, <<>>), <<>>, <<>>,
               NoWorkflowBasic)

\* a node whose configs use the chat history, or have it switched off
ChatHistoryNodeSchema(key, enabled, rounds) ==
    [NodeSchema(key, NodeTypeLLM, "LLM", NodeConfigs(0, <<>>, <<>>), <<>>, <<>>,
                NoWorkflowBasic) EXCEPT
        !.configs.chatHistoryAware = ChatHistoryAware(TRUE, enabled, rounds)]

\* a node whose configs answer whether they require a checkpoint
CheckpointNodeSchema(key, require) ==
    [PlainNodeSchema(key) EXCEPT !.configs.requireCheckpoint = RequireCheckpoint(TRUE, require)]

\* a sub-workflow node around a schema, as toSubWorkflowNodeSchema builds it
SubWorkflowNodeSchema(key, sub) ==
    [NodeSchema(key, NodeTypeSubWorkflow, "Sub", NodeConfigs(1, <<>>, <<>>), <<>>, <<>>,
                WorkflowBasic(1, <<>>, <<"1">>)) EXCEPT !.subWorkflowSchema = sub]

\* the schemas of the sub-workflows: without anything, with a chat history of 4
\* rounds, with a node that requires a checkpoint, with a chat history of 4
\* rounds after such a node, and around a sub-workflow that requires a checkpoint
SubSchemaInputs ==
    LET one(ns) == Compiled("ok", ns, <<>>, {})
        checked == one(<<CheckpointNodeSchema("y", TRUE)>>)
    IN {one(<<PlainNodeSchema("x")>>),
        one(<<ChatHistoryNodeSchema("x", TRUE, 4)>>),
        checked,
        one(<<CheckpointNodeSchema("y", TRUE), ChatHistoryNodeSchema("x", TRUE, 4)>>),
        one(<<SubWorkflowNodeSchema("z", checked)>>)}

\* the nodes of a key: with and without stream configs and a reference to a
\* node, with a chat history, with a checkpoint, around a sub-workflow
NodeSchemaInputs(key) ==
    {[PlainNodeSchema(key) EXCEPT
         !.streamConfigs = IF can \/ req THEN StreamConfig(can, req) ELSE @,
         !.inputSources = IF from = "" THEN <<[fromNodeKey |-> ""]>>
                          ELSE <<[fromNodeKey |-> ""], [fromNodeKey |-> from]>>] :
        can \in BOOLEAN, req \in BOOLEAN, from \in {"", "a", "b", "c"}}
    \cup {ChatHistoryNodeSchema(key, TRUE, 2), ChatHistoryNodeSchema(key, TRUE, 3),
          ChatHistoryNodeSchema(key, FALSE, 5),
          CheckpointNodeSchema(key, TRUE), CheckpointNodeSchema(key, FALSE)}
    \cup {SubWorkflowNodeSchema(key, sub) : sub \in SubSchemaInputs}

\* the schemas Init is called on: up to MaxSchemaNodes nodes of the keys a, b, c
InitSchemaInputs ==
    {Compiled("ok", nodes, <<>>, {}) :
        nodes \in UNION {{f \in [1..n -> UNION {NodeSchemaInputs(SchemaKeys[i]) : i \in 1..n}] :
                            \A i \in 1..n : f[i].key = SchemaKeys[i]} : n \in 0..MaxSchemaNodes}}

InitSchema ==
    /\ InitService
    /\ pruneInput = Canvas(<<>>, <<>>)
    /\ pruneOutput = NotPruned
    /\ wfSchema \in InitSchemaInputs
    /\ otherSchema = Compiled("ok", <<>>, <<>>, {})

\* w.Init() on the schema
SchemaInit ==
    /\ ~wfSchema.once
    /\ wfSchema' = WorkflowSchemaInit(wfSchema)
    /\ lastOp' = Call("Init", "none")
    /\ UNCHANGED <<nextID, meta, draft, versions, references, connectorVersions, commitIDs,
                   publishing, otherSchema, pruneInput, pruneOutput>>

\* CanvasToWorkflowSchema of the default canvas, which ends with Init
CompileDefaultCanvas ==
    /\ ~wfSchema.once
    /\ Len(wfSchema.nodes) = 0
    /\ wfSchema' = CanvasToWorkflowSchema(UnmarshalString(PlainCanvas).canvas)
    /\ lastOp' = Call("CanvasToWorkflowSchema", "none")
    /\ UNCHANGED <<nextID, meta, draft, versions, references, connectorVersions, commitIDs,
                   publishing, otherSchema, pruneInput, pruneOutput>>

NextSchema ==
    \/ SchemaInit
    \/ CompileDefaultCanvas

SpecSchema == InitSchema /\ [][NextSchema]_vars

\* the elements of a list that are in a set, in the order of the list
Among(list, S) ==
    LET In(x) == x \in S
    IN SelectSeq(list, In)

\* the blocks a loop to prune is made of: a code node and a break
PruneBlocks ==
    <<Node("c", NodeTypeCodeRunner, "Code"), Node("d", NodeTypeBreak, "Break")>>

\* the edges inside the loop: from the loop to the code node, on to the break,
\* and back to the loop
PruneBlockEdges ==
    <<Edge("l", "c", <<>>, <<>>), Edge("c", "d", <<>>, <<>>), Edge("c", "l", <<>>, <<>>)>>

\* the loops to prune: every choice of the blocks and of the edges inside
PruneLoopInputs ==
    {[Node("l", NodeTypeLoop, "Loop") EXCEPT !.blocks = Among(PruneBlocks, B),
                                             !.edges = Among(PruneBlockEdges, E)] :
        B \in SUBSET SeqToSet(PruneBlocks), E \in SUBSET SeqToSet(PruneBlockEdges)}

\* the nodes between entry and exit
PruneNodes == <<Node("a", NodeTypeCodeRunner, "Code"), Node("b", NodeTypeCodeRunner, "Code")>>

\* the edges of the canvas: entry -> a -> b -> exit, a -> l -> exit, entry -> exit
PruneEdges ==
    <<Edge(EntryNodeKey, "a", <<>>, <<>>), Edge("a", "b", <<>>, <<>>),
      Edge("b", ExitNodeKey, <<>>, <<>>), Edge("a", "l", <<>>, <<>>),
      Edge("l", ExitNodeKey, <<>>, <<>>), Edge(EntryNodeKey, ExitNodeKey, <<>>, <<>>)>>

\* the canvases to prune: entry and exit, every choice of the nodes between
\* them, with and without a loop, and every choice of the edges
PruneInputs ==
    {Canvas(<<EntryNode>> \o Among(PruneNodes, N) \o loop \o <<ExitNode>>, Among(PruneEdges, E)) :
        N \in SUBSET SeqToSet(PruneNodes),
        loop \in {<<>>} \cup {<<l>> : l \in PruneLoopInputs},
        E \in SUBSET SeqToSet(PruneEdges)}

InitPrune ==
    /\ InitService
    /\ wfSchema = Compiled("ok", <<>>, <<>>, {})
    /\ otherSchema = Compiled("ok", <<>>, <<>>, {})
    /\ pruneInput \in PruneInputs
    /\ pruneOutput = NotPruned

\* PruneIsolatedNodes(nodes, edges, nil) on the canvas
Prune ==
    LET return(r) ==
            /\ pruneOutput' = [done |-> TRUE, panic |-> r.panic, nodes |-> r.nodes,
                               edges |-> r.edges]
            /\ lastOp' = Call("PruneIsolatedNodes", IF r.panic THEN "panic" ELSE "none")
    IN /\ ~pruneOutput.done
       /\ return(PruneIsolatedNodes(pruneInput.nodes, pruneInput.edges, ""))
       /\ UNCHANGED <<nextID, meta, draft, versions, references, connectorVersions, commitIDs,
                      publishing, wfSchema, otherSchema, pruneInput>>

\* the caller hands the nodes and edges it got back to PruneIsolatedNodes again
PruneAgain ==
    /\ pruneOutput.done
    /\ ~pruneOutput.panic
    /\ Canvas(pruneOutput.nodes, pruneOutput.edges) # pruneInput
    /\ pruneInput' = Canvas(pruneOutput.nodes, pruneOutput.edges)
    /\ pruneOutput' = NotPruned
    /\ UNCHANGED <<nextID, meta, draft, versions, references, connectorVersions, commitIDs,
                   publishing, wfSchema, otherSchema, lastOp>>

NextPrune ==
    \/ Prune
    \/ PruneAgain

SpecPrune == InitPrune /\ [][NextPrune]_vars

(***************************************************************************)
(* Properties                                                              *)
(***************************************************************************)
\* the version strings of the calls, from the lowest to the highest under the
\* vA.B.C ordering
VersionOrder ==
    <<<<"v", "0", ".", "0", ".", "1">>,
      <<"v", "0", ".", "0", ".", "2">>,
      <<"v", "0", ".", "0", ".", "1", "0">>>>

VersionRank(v) == CHOOSE i \in 1..Len(VersionOrder) : VersionOrder[i] = v

\* the version records of a workflow are in strictly increasing version order
StrictlyIncreasing(vs) ==
    \A i, j \in 1..Len(vs) : i < j => VersionRank(vs[i].version) < VersionRank(vs[j].version)

\* the tables a call of Publish writes to, and the drafts
PublishFrame == <<versions, references, meta, draft>>

\* C1: Publish on a workflow that has a latest published version succeeds only
\* with a version strictly greater than it under the vA.B.C ordering: with an
\* equal or a lower version the version check rejects the call, whatever the
\* rest of the policy, and the version records Publish created are in strictly
\* increasing order
C1_PublishStrictlyGreater ==
    \A id \in WorkflowIDs :
        /\ StrictlyIncreasing(versions[id])
        /\ meta[id].latestPublishedVersion.has =>
              \A version \in VersionInputs, policy \in PublishInputs :
                  VersionRank(version) <= VersionRank(meta[id].latestPublishedVersion.v)
                      => PublishOutcome(id, version, policy.force, policy.commitID).err
                             = "VersionMonotonicity"

\* v0.0.1 and then v0.0.2 are published, and a further Publish was rejected by the version check
C1_Witness ==
    /\ lastOp = Call("Publish", "VersionMonotonicity")
    /\ \E id \in WorkflowIDs :
          /\ Len(versions[id]) = 2
          /\ versions[id][1].version = VersionOrder[1]
          /\ versions[id][2].version = VersionOrder[2]

\* the compiled schema of a canvas string, when it compiles
Compiles(canvasStr) == CanvasToWorkflowSchema(UnmarshalString(canvasStr).canvas).status = "ok"

\* inherit_or_reset: the flag a Save of canvasStr over the draft of id must store
InheritOrReset(id, canvasStr) ==
    IF /\ id \in DOMAIN draft
       /\ Compiles(draft[id].canvas)
       /\ Compiles(canvasStr)
       /\ IsEqual(CanvasToWorkflowSchema(UnmarshalString(draft[id].canvas).canvas),
                  CanvasToWorkflowSchema(UnmarshalString(canvasStr).canvas))
    THEN draft[id].testRunSuccess
    ELSE FALSE

\* the workflows whose draft a step wrote with a Save
Saved == {id \in DOMAIN draft' : id \notin DOMAIN draft \/ draft'[id].commitID # draft[id].commitID}

NodeIDs(canvasStr) == {canvasStr.nodes[i].id : i \in 1..Len(canvasStr.nodes)}

\* the nodes of the new canvas that the old one does not have
AddedNodes(old, new) == NodeIDs(new) \ NodeIDs(old)

\* the nodes of a canvas that an edge of the canvas leads to
LinkedNodes(canvasStr) == {canvasStr.edges[i].targetNodeID : i \in 1..Len(canvasStr.edges)}

\* C2 as stated: every successful Save stores the flag of inherit_or_reset, and
\* saving a canvas with an added node stores false
C2_SaveInheritsOrResets ==
    [][\A id \in Saved :
          /\ draft'[id].testRunSuccess = InheritOrReset(id, draft'[id].canvas)
          /\ (id \in DOMAIN draft /\ AddedNodes(draft[id].canvas, draft'[id].canvas) # {})
                => ~draft'[id].testRunSuccess]_vars

\* C2 amended: every successful Save stores the flag of inherit_or_reset, a Save
\* of the same canvas keeps the flag, and saving a canvas with an added node that
\* an edge leads to stores false
C2_SaveInheritsOrResetsLinked ==
    [][\A id \in Saved :
          /\ draft'[id].testRunSuccess = InheritOrReset(id, draft'[id].canvas)
          /\ (id \in DOMAIN draft /\ draft'[id].canvas = draft[id].canvas
                 /\ Compiles(draft[id].canvas))
                => draft'[id].testRunSuccess = draft[id].testRunSuccess
          /\ (id \in DOMAIN draft
                 /\ AddedNodes(draft[id].canvas, draft'[id].canvas)
                        \cap LinkedNodes(draft'[id].canvas) # {})
                => ~draft'[id].testRunSuccess]_vars

\* a Save stored a canvas with a node that no edge leads to, and the flag is still true
C2_Witness ==
    /\ lastOp = Call("Save", "none")
    /\ \E id \in DOMAIN draft :
          /\ draft[id].testRunSuccess
          /\ NodeIDs(draft[id].canvas) \ (LinkedNodes(draft[id].canvas) \cup {EntryNodeKey}) # {}

\* C3: a Publish without force is rejected while the draft has not passed the
\* test run, and the rejection creates no version record; a forced Publish is
\* never rejected by the test-run gate; the draft of a newly created workflow
\* has not passed the test run
C3_ForceGate ==
    [][/\ \A id \in DOMAIN draft, version \in VersionInputs :
             /\ ~draft[id].testRunSuccess =>
                   PublishOutcome(id, version, FALSE, <<>>).err
                       \in {"TestRunGate", "VersionMonotonicity"}
             /\ PublishOutcome(id, version, TRUE, <<>>).err # "TestRunGate"
       /\ lastOp' = Call("Publish", "TestRunGate") => UNCHANGED PublishFrame
       /\ lastOp' = Call("Create", "none") =>
             \A id \in DOMAIN draft' \ DOMAIN draft : ~draft'[id].testRunSuccess]_vars

\* the gate rejected the first publish of a workflow whose draft has not passed the test run
C3_Witness ==
    /\ lastOp = Call("Publish", "TestRunGate")
    /\ \E id \in DOMAIN draft : ~draft[id].testRunSuccess /\ Len(versions[id]) = 0

\* C4: for each workflow the version records, in creation order, are strictly
\* increasing under the vA.B.C ordering, whichever operation created them
C4_VersionsStrictlyIncreasing ==
    \A id \in WorkflowIDs : StrictlyIncreasing(versions[id])

\* a release created a version record below the one Publish had created
C4_Witness ==
    /\ lastOp = Call("ReleaseApplicationWorkflows", "none")
    /\ \E id \in WorkflowIDs :
          /\ Len(versions[id]) = 2
          /\ VersionRank(versions[id][2].version) < VersionRank(versions[id][1].version)

\* the nodes of a canvas at every depth of blocks
RECURSIVE AllNodes(_)
AllNodes(nodes) ==
    SeqToSet(nodes) \cup UNION {AllNodes(nodes[i].blocks) : i \in 1..Len(nodes)}

\* canvas_to_refs: a SubWorkflow edge for the workflow of every sub-workflow
\* node, a Tool edge for every workflow tool of every LLM node
CanvasRefs(id, canvasStr) ==
    {WorkflowReferenceKey(id, ParseInt(n.workflowID).val, ReferTypeSubWorkflow) :
        n \in {m \in AllNodes(canvasStr.nodes) : m.type = NodeTypeSubWorkflow}}
    \cup UNION {{WorkflowReferenceKey(id, ParseInt(n.workflowList[k].workflowID).val,
                                      ReferTypeTool) : k \in 1..Len(n.workflowList)} :
                   n \in {m \in AllNodes(canvasStr.nodes) : m.type = NodeTypeLLM}}

\* C5: the reference edges written with a version record are canvas_to_refs of
\* the workflow id and the canvas of that version record, for every version
\* record Publish, ReleaseApplicationWorkflows and CopyWorkflowFromAppToLibrary created
C5_VersionRefsAreCanvasRefs ==
    \A id \in WorkflowIDs : \A i \in 1..Len(versions[id]) :
        versions[id][i].refs = CanvasRefs(id, versions[id][i].canvas)

\* a release wrote a version record whose canvas refers to a workflow from
\* inside a loop, and a copy into the library has a version record
C5_Witness ==
    /\ \E id \in WorkflowIDs : \E i \in 1..Len(versions[id]) :
          /\ versions[id][i].refs # {}
          /\ \E n \in SeqToSet(versions[id][i].canvas.nodes) : Len(n.blocks) > 0
          /\ versions[id][i].canvas # draft[id].canvas
    /\ \E id \in WorkflowIDs : meta[id].appID = LibraryAppID /\ Len(versions[id]) > 0

\* the version record a successful Publish of the draft d appends
PublishedRecord(rec, d) ==
    /\ rec.canvas = d.canvas
    /\ rec.commitID = d.commitID
    /\ rec.inputParamsStr = d.inputParamsStr
    /\ rec.outputParamsStr = d.outputParamsStr

\* C6: a Publish that returns an error creates no version record and leaves the
\* reference edges, the latest published versions and the drafts as they were;
\* a Publish that succeeds appends one version record with the canvas, the
\* parameters and the commit id of the draft, and in the same step replaces the
\* reference edges of the workflow by those of the record and sets its latest
\* published version
C6_PublishAllOrNothing ==
    [][lastOp'.op = "Publish" =>
          IF lastOp'.err # "none" THEN UNCHANGED PublishFrame
          ELSE \E id \in WorkflowIDs :
                  /\ Len(versions'[id]) = Len(versions[id]) + 1
                  /\ versions' = [versions EXCEPT ![id] = Append(@, versions'[id][Len(versions'[id])])]
                  /\ PublishedRecord(versions'[id][Len(versions'[id])], draft[id])
                  /\ references' = {r \in references : r.referringID # id}
                                       \cup versions'[id][Len(versions'[id])].refs
                  /\ meta' = [meta EXCEPT ![id].latestPublishedVersion =
                                 [has |-> TRUE, v |-> versions'[id][Len(versions'[id])].version]]
                  /\ draft' = draft]_vars

\* a Publish failed on a workflow id in the canvas that is no number, after a Publish succeeded
C6_Witness ==
    /\ lastOp = Call("Publish", "RefParse")
    /\ \E id \in WorkflowIDs : Len(versions[id]) > 0

\* a canvas without the titles of its nodes
RECURSIVE WithoutTitles(_)
WithoutTitles(nodes) ==
    [i \in 1..Len(nodes) |->
        [nodes[i] EXCEPT !.title = "", !.blocks = WithoutTitles(nodes[i].blocks)]]

\* the two canvases differ, and only in the titles of nodes
DiffersInTitleOnly(old, new) ==
    /\ old # new
    /\ old.valid /\ new.valid
    /\ old.edges = new.edges
    /\ WithoutTitles(old.nodes) = WithoutTitles(new.nodes)

\* C7: a Save of a canvas that differs from the canvas of the draft only in the
\* title of a node, over a draft that has passed the test run, stores a draft
\* with a new commit id that still has passed the test run
C7_TitleChangeKeepsTestRun ==
    [][\A id \in DOMAIN draft :
          (/\ lastOp' = Call("Save", "none")
           /\ draft'[id] # draft[id]
           /\ draft[id].testRunSuccess
           /\ DiffersInTitleOnly(draft[id].canvas, draft'[id].canvas))
          => /\ draft'[id].commitID # draft[id].commitID
             /\ draft'[id].testRunSuccess]_vars

\* C8: every successful Save, the one of Create and the one of the switch to
\* ChatFlow included, stores a commit id that no draft of the workflow has
\* carried before, and changes the draft of no other workflow; a failed Save
\* leaves every draft as it was
C8_SaveNewCommitID ==
    [][lastOp'.op \in {"Create", "Save", "UpdateMeta"} =>
          IF lastOp'.err = "none"
          THEN \E id \in DOMAIN draft' :
                  /\ id \in DOMAIN draft =>
                        /\ draft'[id].commitID # draft[id].commitID
                        /\ draft'[id].commitID \notin commitIDs[id]
                  /\ \A w \in DOMAIN draft' \ {id} : w \in DOMAIN draft /\ draft'[w] = draft[w]
          ELSE draft' = draft]_vars

\* the switch to ChatFlow saved a draft over one that a Save had stored
C8_Witness ==
    /\ lastOp = Call("UpdateMeta", "none")
    /\ \E id \in DOMAIN draft :
          /\ Cardinality(commitIDs[id]) >= 3
          /\ UserInputKey \in SeqToSet(draft[id].inputParamsStr)

\* the workflows a workflow leads to along the SubWorkflow reference edges
RECURSIVE ReachableBySubWorkflow(_, _)
ReachableBySubWorkflow(from, n) ==
    IF n = 0 THEN from
    ELSE ReachableBySubWorkflow(
             from \cup {r.referredID : r \in {e \in references :
                                                /\ e.referType = ReferTypeSubWorkflow
                                                /\ e.referringID \in from}},
             n - 1)

\* C9: the graph of the SubWorkflow reference edges has no cycle
C9_ReferenceGraphAcyclic ==
    \A e \in references :
        e.referType = ReferTypeSubWorkflow =>
            e.referringID \notin ReachableBySubWorkflow({e.referredID}, MaxID)

\* two workflows refer to each other as sub-workflows
C9_Witness ==
    /\ lastOp = Call("Publish", "none")
    /\ \E a, b \in WorkflowIDs :
          /\ a # b
          /\ WorkflowReferenceKey(a, b, ReferTypeSubWorkflow) \in references
          /\ WorkflowReferenceKey(b, a, ReferTypeSubWorkflow) \in references

\* the draft canvas of w1 refers to w2 as a sub-workflow, and a published
\* canvas of w2 refers to w1 as a sub-workflow
MutualReference(w1, w2) ==
    /\ w1 \in DOMAIN draft
    /\ WorkflowReferenceKey(w1, w2, ReferTypeSubWorkflow) \in CanvasRefs(w1, draft[w1].canvas)
    /\ \E i \in 1..Len(versions[w2]) :
          WorkflowReferenceKey(w2, w1, ReferTypeSubWorkflow) \in versions[w2][i].refs

\* C10: while a published canvas of W2 refers to W1 and the canvas of W1 refers
\* to W2, no Publish creates a version record of W1
C10_PublishRejectsCycle ==
    [][\A w1, w2 \in WorkflowIDs :
          (w1 # w2 /\ MutualReference(w1, w2) /\ lastOp'.op = "Publish")
              => versions'[w1] = versions[w1]]_vars

\* W1 has a version record whose canvas refers to W2, whose published canvas refers to W1
C10_Witness ==
    /\ lastOp = Call("Publish", "none")
    /\ \E w1, w2 \in WorkflowIDs :
          /\ w1 # w2 /\ MutualReference(w1, w2)
          /\ \E i \in 1..Len(versions[w1]) : versions[w1][i].canvas = draft[w1].canvas

\* the compiled schema of the draft canvas of a workflow
DraftSchema(id) == CanvasToWorkflowSchema(UnmarshalString(draft[id].canvas).canvas)

\* a node of the canvas is set to return default data on error and has none
ReturnsDefaultWithoutData(canvasStr) ==
    \E n \in AllNodes(canvasStr.nodes) :
        /\ n.settingOnError.has
        /\ n.settingOnError.processType = ErrorProcessTypeReturnDefaultData
        /\ Len(n.settingOnError.dataOnErr) = 0

\* C11: no Publish, forced or not, creates a version record of a workflow whose
\* draft canvas has a node that returns default data on error without any data
C11_PublishRejectsMissingDataOnErr ==
    [][\A id \in DOMAIN draft :
          (lastOp'.op = "Publish" /\ ReturnsDefaultWithoutData(draft[id].canvas))
              => versions'[id] = versions[id]]_vars

\* a Publish created a version record whose canvas has such a node
C11_Witness ==
    /\ lastOp = Call("Publish", "none")
    /\ \E id \in WorkflowIDs : \E i \in 1..Len(versions[id]) :
          /\ ReturnsDefaultWithoutData(versions[id][i].canvas)
          /\ versions[id][i].canvas = draft[id].canvas

\* the workflow ids the nodes of a canvas refer to, nested blocks included
CanvasWorkflowIDs(canvasStr) ==
    UNION {{ParseInt(nodeWorkflowIDs(n)[k]).val : k \in 1..Len(nodeWorkflowIDs(n))} :
             n \in AllNodes(canvasStr.nodes)}

\* the workflows of the app reachable from the workflows of S through references
RECURSIVE AppClosure(_)
AppClosure(S) ==
    LET grow(N) == IF N \subseteq S THEN S ELSE AppClosure(S \cup N)
    IN grow(UNION {CanvasWorkflowIDs(draft[a].canvas) : a \in S} \cap MGetDrafts(AppID))

\* the outcome of a copy holds one copy of each workflow of the closure, made
\* after the copies of the workflows it refers to, published once as v0.0.1, with
\* every reference into the closure rewritten to the copy
CopiedClosure(workflowID, out) ==
    LET ClosureCopied(map, closure) ==
            /\ DOMAIN map = closure
            /\ \A a, b \in closure : a # b => map[a].id # map[b].id
            /\ {map[a].id : a \in closure} = DOMAIN out.R.meta \ DOMAIN meta
            /\ \A a \in closure :
                  /\ map[a].version = workflowPublishVersion
                  /\ out.R.meta[map[a].id].appID = LibraryAppID
                  /\ Len(out.R.versions[map[a].id]) = 1
                  /\ out.R.versions[map[a].id][1].version = workflowPublishVersion
                  /\ out.R.versions[map[a].id][1].canvas = out.R.draft[map[a].id].canvas
                  /\ CanvasWorkflowIDs(out.R.draft[map[a].id].canvas) =
                        {map[b].id : b \in CanvasWorkflowIDs(draft[a].canvas) \cap closure}
                        \cup (CanvasWorkflowIDs(draft[a].canvas) \ closure)
                  /\ \A b \in CanvasWorkflowIDs(draft[a].canvas) \cap closure :
                        map[b].id < map[a].id
    IN out.err = "none" => ClosureCopied(out.hasPublishedWorkflows, AppClosure({workflowID}))

\* C12: a copy that succeeds copies each workflow of the reference closure of the
\* source workflow within the app exactly once, a referred workflow before the
\* workflows that refer to it, publishes every copy as v0.0.1, and leaves in no
\* copied canvas a reference to the original id of a workflow of the closure
C12_CopyClosureOnce ==
    \A workflowID \in MGetDrafts(AppID) : \A order \in Orders(MGetDrafts(AppID)) :
        CopiedClosure(workflowID, CopyOutcome(workflowID, AppID, order, 0))

\* a copy succeeded and left three workflows in the library: one that refers to
\* the two others, one of which refers to the third
C12_Witness ==
    /\ lastOp = Call("CopyWorkflowFromAppToLibrary", "none")
    /\ Cardinality(MGetDrafts(LibraryAppID)) = 3
    /\ \E c1, c2, c3 \in MGetDrafts(LibraryAppID) :
          /\ c1 < c2 /\ c2 < c3
          /\ CanvasWorkflowIDs(draft[c3].canvas) = {c1, c2}
          /\ CanvasWorkflowIDs(draft[c2].canvas) = {c1}
          /\ \A c \in {c1, c2, c3} : Len(versions[c]) = 1

\* a workflow of the reference closure of the workflow within the app has a
\* validation issue
IssueInClosure(workflowID) ==
    \E id \in AppClosure({workflowID}) : validateWorkflowTree(draft[id].canvas).issues

\* C13: a copy validates the source workflow and every workflow of the app it
\* refers to, directly or through other workflows; when one of them has a
\* validation issue the copy returns the issues, copies no workflow and
\* publishes no version
C13_CopyValidatesClosure ==
    \A workflowID \in MGetDrafts(AppID) : \A order \in Orders(MGetDrafts(AppID)) :
        \A failAt \in 0..1 :
            LET Rejected(out) == out.err = "ValidationFailed" /\ out.R = Repo
            IN IssueInClosure(workflowID)
                   => Rejected(CopyOutcome(workflowID, AppID, order, failAt))

\* a copy returned issues where every workflow of the app reaches the one
\* workflow with an issue, one of them only through a third workflow, and the
\* library is empty
C13_Witness ==
    /\ lastOp = Call("CopyWorkflowFromAppToLibrary", "ValidationFailed")
    /\ MGetDrafts(LibraryAppID) = {}
    /\ Cardinality(MGetDrafts(AppID)) = 3
    /\ \A w \in MGetDrafts(AppID) : IssueInClosure(w)
    /\ \E bad \in MGetDrafts(AppID) :
          /\ \A w \in MGetDrafts(AppID) \ {bad} : ~validateWorkflowTree(draft[w].canvas).issues
          /\ \E w \in MGetDrafts(AppID) : bad \notin CanvasWorkflowIDs(draft[w].canvas) \cup {w}

\* the workflow has a version record with that version string
HasVersion(vs, version) == \E i \in 1..Len(vs) : vs[i].version = version

\* what a call of ReleaseApplicationWorkflows that selects the workflows of
\* order leaves: after a success a version record of every selected workflow and
\* the bindings of the workflows of bound to every connector; nothing published
\* with an empty connector list or with a validation issue
ReleaseLeaves(out, version, connectorIDs, order, bound) ==
    LET selected == SeqToSet(order)
        nothingPublished == out.R = Repo
    IN /\ out.err = "none" =>
             /\ \A w \in selected : HasVersion(out.R.versions[w], version)
             /\ \A w \in bound : \A c \in connectorIDs :
                   <<AppID, c, w, version>> \in out.R.connectorVersions
       /\ connectorIDs = {} => (out.err = "ConnectorRequired" /\ nothingPublished)
       /\ (connectorIDs # {} /\ \E w \in selected : validateWorkflowTree(draft[w].canvas).issues)
             => (out.err = "ValidationFailed" /\ nothingPublished)

\* every call of ReleaseApplicationWorkflows of the connector lifecycle leaves
\* what ReleaseLeaves says, with the bindings of the workflows of
\* Bound(selected, version), and satisfies Also
ReleaseCalls(Bound(_, _), Also(_, _, _, _)) ==
    \A version \in ReleaseVersionInputs, connectorIDs \in BindConnectorInputs, failAt \in 0..1 :
       \A workflowIDs \in SUBSET MGetDrafts(AppID) :
          \A order \in Orders(IF workflowIDs = {} THEN MGetDrafts(AppID) ELSE workflowIDs) :
             LET Leaves(out) ==
                     /\ ReleaseLeaves(out, version, connectorIDs, order,
                                      Bound(SeqToSet(order), version))
                     /\ Also(out, version, connectorIDs, Bound(SeqToSet(order), version))
             IN Leaves(ReleaseOutcome(AppID, version, connectorIDs, order, failAt))

\* C14 as stated: after a successful release every selected workflow has a
\* version record for the version and a binding to every connector of the
\* release; with no connector the call fails and with validation issues it
\* returns them, both without publishing
C14_ReleaseBindsSelected ==
    LET Bound(selected, version) == selected
        Also(out, version, connectorIDs, bound) == TRUE
    IN ReleaseCalls(Bound, Also)

\* C14 amended: after a successful release every selected workflow has a version
\* record for the version, and the bindings the call adds are those of every
\* selected workflow that had no such version record before the call to every
\* connector of the release; with no connector the call fails and with
\* validation issues it returns them, both without publishing
C14_ReleaseBindsCreated ==
    LET Bound(selected, version) == {w \in selected : ~HasVersion(versions[w], version)}
        Also(out, version, connectorIDs, bound) ==
            out.err = "none" =>
                out.R.connectorVersions =
                    connectorVersions
                        \cup {<<AppID, c, w, version>> : c \in connectorIDs, w \in bound}
    IN ReleaseCalls(Bound, Also)

\* a release succeeded after which a workflow has the version record of the
\* release, made by an earlier Publish, and no binding, and another workflow
\* has the version record and the bindings of the release
C14_Witness ==
    /\ lastOp = Call("ReleaseApplicationWorkflows", "none")
    /\ \E w1, w2 \in MGetDrafts(AppID) :
          /\ HasVersion(versions[w1], workflowPublishVersion)
          /\ HasVersion(versions[w2], workflowPublishVersion)
          /\ \A c \in {1, 2} : <<AppID, c, w2, workflowPublishVersion>> \in connectorVersions
          /\ \A c \in {1, 2} : <<AppID, c, w1, workflowPublishVersion>> \notin connectorVersions

\* the workflow id strings of the nodes of a canvas, nested blocks included
CanvasWorkflowIDStrings(canvasStr) ==
    UNION {{nodeWorkflowIDs(n)[k] : k \in 1..Len(nodeWorkflowIDs(n))} :
             n \in AllNodes(canvasStr.nodes)}

\* the id string a reference is rewritten to
RewrittenID(str, relatedWorkflows) ==
    LET mapped(p) ==
            IF p.ok /\ p.val \in DOMAIN relatedWorkflows
            THEN FormatInt(relatedWorkflows[p.val].id) ELSE str
    IN mapped(ParseInt(str))

\* the drafts a sync leaves: as they were for the workflows of the map, and for
\* every other workflow of the app a draft with the references rewritten, a
\* commit id the workflow never had, test_run_success false, modified true and
\* the parameters as they were
SyncEffect(relatedWorkflows, out) ==
    \A w \in MGetDrafts(AppID) :
        IF w \in DOMAIN relatedWorkflows THEN out.R.draft[w] = draft[w]
        ELSE /\ CanvasWorkflowIDStrings(out.R.draft[w].canvas) =
                  {RewrittenID(str, relatedWorkflows) :
                      str \in CanvasWorkflowIDStrings(draft[w].canvas)}
             /\ \A v \in DOMAIN commitIDs : out.R.draft[w].commitID \notin commitIDs[v]
             /\ ~out.R.draft[w].testRunSuccess
             /\ out.R.draft[w].modified
             /\ out.R.draft[w].inputParamsStr = draft[w].inputParamsStr
             /\ out.R.draft[w].outputParamsStr = draft[w].outputParamsStr

\* C15: SyncRelatedWorkflowResources leaves the draft of every workflow of the
\* app that is in the map of related workflows as it was, and gives every other
\* workflow of the app a draft with rewritten references, a fresh commit id,
\* test_run_success false, modified true and the parameters it had
C15_SyncRewritesOthers ==
    \A relatedWorkflows \in RelatedWorkflowInputs, done \in SUBSET MGetDrafts(AppID) :
       \A order \in Orders(MGetDrafts(AppID)) :
          SyncEffect(relatedWorkflows, SyncOutcome(AppID, relatedWorkflows, order, done))

\* a sync ran out of commit ids and left a workflow of the app with the one
\* commit id it was created with
C15_Witness ==
    /\ lastOp = Call("SyncRelatedWorkflowResources", "panic")
    /\ \E w \in MGetDrafts(AppID) : Cardinality(commitIDs[w]) = 1

\* the same for the calls whose map holds workflows of the app only and that
\* return without error from canvases whose workflow ids are all numbers
SyncEffectInContract ==
    \A relatedWorkflows \in RelatedWorkflowInputs, done \in SUBSET MGetDrafts(AppID) :
       \A order \in Orders(MGetDrafts(AppID)) :
          LET effect(out) == out.err = "none" => SyncEffect(relatedWorkflows, out)
          IN (/\ DOMAIN relatedWorkflows \subseteq MGetDrafts(AppID)
              /\ \A w \in MGetDrafts(AppID) :
                    \A str \in CanvasWorkflowIDStrings(draft[w].canvas) : ParseInt(str).ok)
                 => effect(SyncOutcome(AppID, relatedWorkflows, order, done))

\* the outputs of the entry node adaptToChatFlow works on, the first of the canvas
EntryOutputsOf(canvasStr) ==
    LET S == {i \in 1..Len(canvasStr.nodes) : canvasStr.nodes[i].type = NodeTypeEntry}
    IN IF S = {} THEN <<>> ELSE canvasStr.nodes[CHOOSE i \in S : \A j \in S : i <= j].outputs

HasEntryNode(canvasStr) == \E i \in 1..Len(canvasStr.nodes) : canvasStr.nodes[i].type = NodeTypeEntry

\* how often a name occurs in the outputs
Occurrences(outputs, name) == Cardinality({i \in 1..Len(outputs) : outputs[i] = name})

\* the outputs that are no chat variable
OtherOutputs(outputs) ==
    LET IsOther(name) == name \notin {UserInputKey, ConversationNameKey}
    IN SelectSeq(outputs, IsOther)

\* what a switch of the workflow to ChatFlow leaves.  once: each chat variable
\* occurs once in the entry outputs; resaved: a draft whose entry node has both
\* chat variables gets a new commit id all the same
SwitchLeaves(id, once, resaved) ==
    LET old == EntryOutputsOf(draft[id].canvas)
        new == EntryOutputsOf(draft'[id].canvas)
        both == {UserInputKey, ConversationNameKey} \subseteq SeqToSet(old)
        adapted ==
            /\ \A name \in {UserInputKey, ConversationNameKey} :
                  Occurrences(new, name) =
                      IF once \/ Occurrences(old, name) = 0 THEN 1 ELSE Occurrences(old, name)
            /\ OtherOutputs(new) = OtherOutputs(old)
            /\ SubSeq(new, 1, Len(old)) = old
            /\ both => new = old
            /\ IF resaved THEN draft'[id].commitID \notin commitIDs[id]
               ELSE both => draft'[id] = draft[id]
    IN IF HasEntryNode(draft[id].canvas) THEN lastOp'.err = "none" => adapted
       ELSE lastOp'.err # "none" /\ draft' = draft

\* C16 as stated: after a switch to ChatFlow the entry node of the saved draft has
\* USER_INPUT and CONVERSATION_NAME once each: a missing one is appended, an
\* existing one is not duplicated, the other outputs are kept, the canvas is saved
\* again only if one was missing, and a repeated switch leaves the entry outputs;
\* without an entry node the switch fails and leaves the draft
C16_ChatFlowEntryFields ==
    [][\A id \in WorkflowIDs, fail \in SaveFailures :
          UpdateMeta(id, ModeChatFlow, fail) => SwitchLeaves(id, TRUE, FALSE)]_vars

\* C16 amended: after a switch to ChatFlow the entry node of the saved draft has
\* USER_INPUT and CONVERSATION_NAME: a missing one is appended once, an existing
\* one is left as often as it is there, the other outputs are kept, the canvas is
\* saved again with a new commit id whether one was missing or not, and a
\* repeated switch leaves the entry outputs; without an entry node the switch
\* fails and leaves the draft
C16_ChatFlowEntryFieldsResaved ==
    [][\A id \in WorkflowIDs, fail \in SaveFailures :
          UpdateMeta(id, ModeChatFlow, fail) => SwitchLeaves(id, FALSE, TRUE)]_vars

\* a switch to ChatFlow was repeated on a draft whose entry node has another
\* output and both chat variables, after the first switch added them
C16_Witness ==
    /\ lastOp = Call("UpdateMeta", "none")
    /\ \E id \in WorkflowIDs :
          /\ meta[id].mode = ModeChatFlow
          /\ EntryOutputsOf(draft[id].canvas) = <<"input", UserInputKey, ConversationNameKey>>
          /\ Cardinality(commitIDs[id]) >= 3

\* the references of the nodes of a canvas, nested blocks included
CanvasReferences(canvasStr) ==
    LET ofNode(n) ==
            IF n.type = NodeTypeSubWorkflow
            THEN {[workflowID |-> n.workflowID, workflowVersion |-> n.workflowVersion]}
            ELSE IF n.type = NodeTypeLLM THEN SeqToSet(n.workflowList)
            ELSE {}
    IN {r \in UNION {ofNode(n) : n \in AllNodes(canvasStr.nodes)} : Len(r.workflowID) > 0}

\* the (workflow id, version) keys reachable from the keys of K through the
\* references of the canvases the keys resolve to
RECURSIVE ReachableKeys(_)
ReachableKeys(K) ==
    LET keys(canvasStr) ==
            {<<ParseInt(r.workflowID).val, r.workflowVersion>> :
                r \in {q \in CanvasReferences(canvasStr) : ParseInt(q.workflowID).ok}}
        grow(N) == IF N \subseteq K THEN K ELSE ReachableKeys(K \cup N)
    IN grow(UNION {keys(GetEntity(k[1], k[2]).canvas) : k \in {q \in K : GetEntity(q[1], q[2]).ok}})

\* the canvases the check of the workflow entity (id, version) can reach
ReachableCanvases(id, version) ==
    {GetEntity(k[1], k[2]).canvas :
        k \in {q \in ReachableKeys({<<id, version>>}) : GetEntity(q[1], q[2]).ok}}

ConversationNodeIn(canvases) ==
    \E c \in canvases : \E n \in AllNodes(c.nodes) : n.type \in ConversationNodeTypes

InvalidWorkflowIDIn(canvases) ==
    \E c \in canvases : \E r \in CanvasReferences(c) : ~ParseInt(r.workflowID).ok

\* the keys of the sequence are all different
NoKeyTwice(expanded) ==
    \A i, j \in 1..Len(expanded) : expanded[i] = expanded[j] => i = j

\* every check of a workflow entity passes exactly when Fails does not hold of the
\* canvases it can reach, and expands no key twice
SchemaChecks(Fails(_)) ==
    \A id \in WorkflowIDs, version \in {<<>>, workflowPublishVersion} :
        LET checked(out) ==
                /\ out.ok
                /\ out.isPass = ~Fails(ReachableCanvases(id, version))
                /\ NoKeyTwice(out.expanded)
        IN GetEntity(id, version).ok => checked(SchemaCheckOutcome(id, version))

RECURSIVE EdgeToMissingNode(_, _, _)
EdgeToMissingNode(nodes, edges, parentID) ==
    \/ \E i \in 1..Len(edges) :
          edges[i].targetNodeID \notin
              {nodes[k].id : k \in 1..Len(nodes)} \cup {EntryNodeKey, ExitNodeKey, parentID}
    \/ \E k \in 1..Len(nodes) :
          /\ Len(nodes[k].blocks) > 0 /\ Len(nodes[k].edges) > 0
          /\ EdgeToMissingNode(nodes[k].blocks, nodes[k].edges, nodes[k].id)

\* C18: CanvasToWorkflowSchema lets no panic through: the compilation of a
\* canvas with an edge to a node that does not exist returns an error
C18_PanicIsReturnedAsError ==
    \A id \in DOMAIN draft :
        LET Recovered(canvasStr, sc) ==
                /\ sc.status # "panic"
                /\ EdgeToMissingNode(canvasStr.nodes, canvasStr.edges, "") => sc.status = "err"
        IN Recovered(draft[id].canvas, DraftSchema(id))

\* a canvas whose loop body has an edge to a node that does not exist was saved,
\* and its compilation returns an error
C18_Witness ==
    /\ lastOp = Call("Save", "none")
    /\ \E id \in DOMAIN draft :
          /\ \A i \in 1..Len(draft[id].canvas.edges) :
                draft[id].canvas.edges[i].targetNodeID \in
                    {draft[id].canvas.nodes[k].id : k \in 1..Len(draft[id].canvas.nodes)}
          /\ EdgeToMissingNode(draft[id].canvas.nodes, draft[id].canvas.edges, "")
          /\ DraftSchema(id).status = "err"

\* the keys of the nodes of a compiled schema
SchemaNodeKeys(sc) == {sc.nodes[k].key : k \in 1..Len(sc.nodes)}

\* C19: in the schema of every canvas that compiles, the from_node of every
\* connection, and its to_node unless it is END, is the key of a node of the schema
C19_ConnectionsJoinSchemaNodes ==
    \A id \in DOMAIN draft :
        LET Joined(sc) ==
                sc.status = "ok" =>
                    \A i \in 1..Len(sc.connections) :
                        /\ sc.connections[i].fromNode \in SchemaNodeKeys(sc)
                        /\ sc.connections[i].toNode # END
                              => sc.connections[i].toNode \in SchemaNodeKeys(sc)
        IN Joined(DraftSchema(id))

\* a canvas with a comment node between entry and exit was saved and compiles
\* to a schema with connections from and to the comment node, which is no node
\* of the schema
C19_Witness ==
    /\ lastOp = Call("Save", "none")
    /\ \E id \in DOMAIN draft :
          LET Dangling(sc) ==
                  /\ sc.status = "ok"
                  /\ \E i, j \in 1..Len(sc.connections) :
                        /\ sc.connections[i].toNode = "n1"
                        /\ sc.connections[j].fromNode = "n1"
                        /\ "n1" \notin SchemaNodeKeys(sc)
          IN /\ \E k \in 1..Len(draft[id].canvas.nodes) :
                   /\ draft[id].canvas.nodes[k].id = "n1"
                   /\ draft[id].canvas.nodes[k].type = NodeTypeComment
             /\ Dangling(DraftSchema(id))

\* the largest branch index looked for in the ports of a selector
MaxBranch == 3

\* the port branch_i
BranchPort(i) == PortBranchPrefix \o FormatInt(i)

\* the from_port values of the connections that leave the node with a port
PortsFrom(sc, key) ==
    {sc.connections[i].fromPort :
        i \in {j \in 1..Len(sc.connections) :
                  sc.connections[j].fromNode = key /\ sc.connections[j].hasPort}}

\* the ports are branch_i and default only, the indices i without a gap from 0
BranchPortsContiguous(ports) ==
    /\ ports \subseteq {PortDefault} \cup {BranchPort(i) : i \in 0..MaxBranch}
    /\ \A i \in 0..MaxBranch :
          BranchPort(i) \in ports => \A j \in 0..i : BranchPort(j) \in ports

\* C20: in the schema of every canvas that compiles, the from_port values of the
\* connections that leave a selector node are among branch_0, branch_1, ... and
\* default, and the indices of the branch ports that occur are 0, 1, ... without a gap
C20_SelectorPortsContiguous ==
    \A id \in DOMAIN draft :
        LET Normalized(sc) ==
                sc.status = "ok" =>
                    \A k \in 1..Len(sc.nodes) :
                        sc.nodes[k].type = NodeTypeSelector
                            => BranchPortsContiguous(PortsFrom(sc, sc.nodes[k].key))
        IN Normalized(DraftSchema(id))

\* a canvas whose selector has the ports true_2 and false was saved and compiles
\* to a schema in which the selector has the ports branch_2 and default
C20_Witness ==
    /\ lastOp = Call("Save", "none")
    /\ \E id \in DOMAIN draft :
          LET Gap(sc) ==
                  /\ sc.status = "ok"
                  /\ \E k \in 1..Len(sc.nodes) :
                        /\ sc.nodes[k].type = NodeTypeSelector
                        /\ PortsFrom(sc, sc.nodes[k].key) = {BranchPort(2), PortDefault}
          IN Gap(DraftSchema(id))

\* the canvas nodes CanvasToWorkflowSchema converts: those PruneIsolatedNodes keeps
ConvertedNodes(canvasStr) == PruneIsolatedNodes(canvasStr.nodes, canvasStr.edges, "").nodes

\* the keys of the children of a converted canvas node: its blocks, or the inner
\* node when the node is in batch mode
ChildKeys(n) ==
    IF n.nodeBatchInfo.batchEnable THEN {GenerateNodeIDForBatchMode(n.id)}
    ELSE {n.blocks[j].id : j \in 1..Len(n.blocks)}

\* the composite nodes of a canvas: loops, batches and nodes in batch mode
IsComposite(n) == n.type \in {NodeTypeLoop, NodeTypeBatch} \/ n.nodeBatchInfo.batchEnable

\* C21: in the schema of every canvas that compiles, the hierarchy maps every child
\* of a loop or batch node, the inner node of a node in batch mode included, to the
\* key of that node, and GetCompositeNodes lists under each parent exactly the
\* schema nodes that the hierarchy maps to it
C21_HierarchyOfComposites ==
    \A id \in DOMAIN draft :
        LET Children(nodes, sc) ==
                \A i \in 1..Len(nodes) :
                    IsComposite(nodes[i]) =>
                        \A k \in ChildKeys(nodes[i]) : <<k, nodes[i].id>> \in sc.hierarchy
            Listed(sc) ==
                \A p \in SchemaNodeKeys(sc) :
                    LET under == {k \in SchemaNodeKeys(sc) : <<k, p>> \in sc.hierarchy}
                    IN IF under = {}
                       THEN \A c \in GetCompositeNodes(sc) : c.parent # p
                       ELSE /\ [parent |-> p, children |-> under] \in GetCompositeNodes(sc)
                            /\ \A c \in GetCompositeNodes(sc) : c.parent = p => c.children = under
            Holds(sc) ==
                sc.status = "ok" =>
                    /\ Children(ConvertedNodes(draft[id].canvas), sc)
                    /\ Listed(sc)
                    /\ \A c \in GetCompositeNodes(sc) : c.parent \in SchemaNodeKeys(sc)
        IN Holds(DraftSchema(id))

\* a canvas with a loop around m1 and a node n1 in batch mode was saved and
\* compiles: the hierarchy has both children, and both parents are listed
C21_Witness ==
    /\ lastOp = Call("Save", "none")
    /\ \E id \in DOMAIN draft :
          LET Both(sc) ==
                  /\ sc.status = "ok"
                  /\ sc.hierarchy = {<<"m1", "l1">>, <<GenerateNodeIDForBatchMode("n1"), "n1">>}
                  /\ GetCompositeNodes(sc) =
                         {[parent |-> "l1", children |-> {"m1"}],
                          [parent |-> "n1", children |-> {GenerateNodeIDForBatchMode("n1")}]}
          IN Both(DraftSchema(id))

\* the ids of the connections of a schema
ConnectionIDs(sc) == {ConnectionID(sc.connections[i]) : i \in 1..Len(sc.connections)}

\* the node of a key
NodeOfKey(sc, k) == CHOOSE n \in SeqToSet(sc.nodes) : n.key = k

\* same connection ids, same node keys, and per key the same name, configs, input
\* types and sources, output types and sources, exception configs and sub-workflow basic
ExecutionEquivalent(a, b) ==
    /\ ConnectionIDs(a) = ConnectionIDs(b)
    /\ SchemaNodeKeys(a) = SchemaNodeKeys(b)
    /\ \A k \in SchemaNodeKeys(a) :
          LET Same(n, m) ==
                  /\ n.name = m.name
                  /\ n.configs = m.configs
                  /\ n.inputs = m.inputs /\ n.inputSources = m.inputSources
                  /\ n.outputs = m.outputs
                  /\ n.exceptionConfigs = m.exceptionConfigs
                  /\ n.subWorkflowBasic = m.subWorkflowBasic
          IN Same(NodeOfKey(a, k), NodeOfKey(b, k))

Reverse(seq) == [i \in 1..Len(seq) |-> seq[Len(seq) + 1 - i]]

\* the schema with its nodes and connections in the opposite order and its first
\* connection once more
Rearranged(sc) ==
    [sc EXCEPT !.nodes = Reverse(@),
               !.connections = IF Len(@) = 0 THEN @ ELSE Append(Reverse(@), @[1])]

\* C22: IsEqual is true exactly for two schemas with the same connection ids and
\* the same node keys with, per key, equal name, configs, input types and sources,
\* output types and sources, exception configs and sub-workflow basic; the order
\* of the nodes and connections and a repeated connection do not change the
\* result, and the relation is reflexive and symmetric
C22_IsEqualIsExecutionEquivalence ==
    /\ lastOp.op = "IsEqual"
          => (lastOp.err = "true" <=> ExecutionEquivalent(wfSchema, otherSchema))
    /\ IsEqual(wfSchema, otherSchema) = IsEqual(Rearranged(wfSchema), otherSchema)
    /\ IsEqual(wfSchema, otherSchema) = IsEqual(wfSchema, Rearranged(otherSchema))
    /\ IsEqual(wfSchema, wfSchema)
    /\ IsEqual(wfSchema, otherSchema) = IsEqual(otherSchema, wfSchema)

\* two schemas of two nodes that differ in the order of the nodes, in the order of
\* the connections and in the type of a node were compared and found equal
C22_Witness ==
    /\ lastOp = Call("IsEqual", "true")
    /\ Len(wfSchema.nodes) = 2
    /\ wfSchema.nodes # otherSchema.nodes
    /\ wfSchema.connections # otherSchema.connections
    /\ \E i, j \in 1..2 : /\ wfSchema.nodes[i].key = otherSchema.nodes[j].key
                          /\ wfSchema.nodes[i].type # otherSchema.nodes[j].type

\* whether a node uses the chat history, and with how many rounds
UsesChatHistory(n) == n.configs.chatHistoryAware.implemented /\ n.configs.chatHistoryAware.enabled

Maximum(S) == CHOOSE m \in S : \A x \in S : x <= m

\* the rounds of the nodes that use the chat history and HistoryRounds() of the
\* schemas of the sub-workflow nodes
RoundsIn(sc) ==
    {sc.nodes[i].configs.chatHistoryAware.rounds :
        i \in {j \in 1..Len(sc.nodes) : UsesChatHistory(sc.nodes[j])}}
    \cup {WorkflowSchemaInit(sc.nodes[i].subWorkflowSchema).historyRounds :
             i \in {j \in 1..Len(sc.nodes) : sc.nodes[j].type = NodeTypeSubWorkflow}}

\* C24: after Init, HistoryRounds() is the maximum of the chat-history rounds of
\* the nodes that use the chat history and of HistoryRounds() of the schemas of
\* the sub-workflow nodes, 0 without any, whatever the order of the nodes and
\* whether or not a node requires a checkpoint
C24_HistoryRoundsIsMaximum ==
    wfSchema.once => wfSchema.historyRounds = Maximum(RoundsIn(wfSchema) \cup {0})

\* Init ran on a schema whose first node requires a checkpoint and whose second
\* node uses the chat history with 3 rounds
C24_Witness ==
    /\ lastOp = Call("Init", "none")
    /\ Len(wfSchema.nodes) = 2
    /\ wfSchema.nodes[1] = CheckpointNodeSchema("a", TRUE)
    /\ wfSchema.nodes[2] = ChatHistoryNodeSchema("b", TRUE, 3)
    /\ wfSchema.historyRounds = 0

\* without a node that requires a checkpoint, in the schema or in a sub-workflow,
\* HistoryRounds() is that maximum
HistoryRoundsWithoutCheckpoint ==
    wfSchema.once /\ ~wfSchema.requireCheckPoint
        => wfSchema.historyRounds = Maximum(RoundsIn(wfSchema) \cup {0})

\* whether the configs of a node declare that it requires a checkpoint
DeclaresCheckpoint(n) ==
    n.configs.requireCheckpoint.implemented /\ n.configs.requireCheckpoint.require

\* some node of the schema, or of the schema of a sub-workflow node at any depth,
\* declares that it requires a checkpoint
RECURSIVE CheckpointDeclaredIn(_)
CheckpointDeclaredIn(sc) ==
    \E i \in 1..Len(sc.nodes) :
        \/ DeclaresCheckpoint(sc.nodes[i])
        \/ /\ sc.nodes[i].type = NodeTypeSubWorkflow
           /\ CheckpointDeclaredIn(sc.nodes[i].subWorkflowSchema)

\* the schema compiled from the canvas with the entry and the exit node only
OnlyEntryAndExit(sc) ==
    /\ lastOp = Call("CanvasToWorkflowSchema", "none")
    /\ sc.status = "ok"
    /\ SchemaNodeKeys(sc) = {EntryNodeKey, ExitNodeKey}

\* C25: after Init, RequireCheckpoint() is true exactly if a node declares that it
\* requires a checkpoint, or the schema of a sub-workflow node requires one, or a
\* node uses the chat history; the schema of a canvas with only entry and exit
\* requires neither a checkpoint nor streaming
C25_RequireCheckpointOrChatHistory ==
    /\ wfSchema.once =>
          (wfSchema.requireCheckPoint <=>
              \/ CheckpointDeclaredIn(wfSchema)
              \/ \E i \in 1..Len(wfSchema.nodes) : UsesChatHistory(wfSchema.nodes[i]))
    /\ OnlyEntryAndExit(wfSchema) => ~wfSchema.requireCheckPoint /\ ~wfSchema.requireStreaming

\* C25 (amended): after Init, RequireCheckpoint() is true exactly if a node declares
\* that it requires a checkpoint or the schema of a sub-workflow node, at any depth,
\* requires one; the use of the chat history alone does not make it true; the schema
\* of a canvas with only entry and exit requires neither a checkpoint nor streaming
C25_RequireCheckpointDeclared ==
    /\ wfSchema.once => (wfSchema.requireCheckPoint <=> CheckpointDeclaredIn(wfSchema))
    /\ wfSchema.once =>
          \A i \in 1..Len(wfSchema.nodes) :
              wfSchema.nodes[i].type = NodeTypeSubWorkflow
                  /\ WorkflowSchemaInit(wfSchema.nodes[i].subWorkflowSchema).requireCheckPoint
                  => wfSchema.requireCheckPoint
    /\ OnlyEntryAndExit(wfSchema) => ~wfSchema.requireCheckPoint /\ ~wfSchema.requireStreaming

\* Init ran on a schema whose first node uses the chat history and whose second
\* node is a sub-workflow around a sub-workflow that requires a checkpoint
C25_Witness ==
    /\ lastOp = Call("Init", "none")
    /\ Len(wfSchema.nodes) = 2
    /\ UsesChatHistory(wfSchema.nodes[1])
    /\ wfSchema.nodes[2].type = NodeTypeSubWorkflow
    /\ SchemaNodeKeys(wfSchema.nodes[2].subWorkflowSchema) = {"z"}
    /\ wfSchema.requireCheckPoint

\* a path of the references from a node that can generate a stream to a node
\* that requires streaming input; a node that is both is such a path by itself
StreamPath(sc) ==
    LET keys == SchemaNodeKeys(sc)
        Refers(from, to) ==
            \E i \in 1..Len(sc.nodes) :
                /\ sc.nodes[i].key = to
                /\ \E k \in 1..Len(sc.nodes[i].inputSources) :
                      sc.nodes[i].inputSources[k].fromNodeKey = from
        Produces(k) == \E i \in 1..Len(sc.nodes) :
                          /\ sc.nodes[i].key = k
                          /\ sc.nodes[i].streamConfigs.has
                          /\ sc.nodes[i].streamConfigs.canGeneratesStream
        Consumes(k) == \E i \in 1..Len(sc.nodes) :
                          /\ sc.nodes[i].key = k
                          /\ sc.nodes[i].streamConfigs.has
                          /\ sc.nodes[i].streamConfigs.requireStreamingInput
    IN \E n \in 1..Cardinality(keys) : \E path \in [1..n -> keys] :
          /\ Produces(path[1])
          /\ Consumes(path[n])
          /\ \A i \in 1..(n - 1) : Refers(path[i], path[i + 1])

\* C26: RequireStreaming() is true exactly if the references, followed from the
\* referenced node to the referring node, lead from a node that can generate a
\* stream to a node that requires streaming input; it is false without a producer
\* or without a consumer, and the search ends on references that form a cycle
C26_RequireStreamingIsReachability ==
    wfSchema.once => (wfSchema.requireStreaming <=> StreamPath(wfSchema))

\* Init ran on a schema in which a produces, c consumes, and the references go
\* from a to b, from b to a and from b to c
C26_Witness ==
    LET RefersTo(n, from) ==
            \E k \in 1..Len(n.inputSources) : n.inputSources[k].fromNodeKey = from
    IN /\ lastOp = Call("Init", "none")
       /\ Len(wfSchema.nodes) = 3
       /\ wfSchema.nodes[1].streamConfigs = StreamConfig(TRUE, FALSE)
       /\ RefersTo(wfSchema.nodes[1], "b")
       /\ ~wfSchema.nodes[2].streamConfigs.has
       /\ RefersTo(wfSchema.nodes[2], "a")
       /\ wfSchema.nodes[3].streamConfigs = StreamConfig(FALSE, TRUE)
       /\ RefersTo(wfSchema.nodes[3], "b")
       /\ wfSchema.requireStreaming

\* C23: when callers of Publish run beside each other on one workflow, the
\* version records still come out in strictly increasing version order and the
\* latest published version of the meta never goes down, under every
\* interleaving of their steps
C23_ConcurrentPublishIncreasing ==
    \A id \in WorkflowIDs :
        /\ StrictlyIncreasing(versions[id])
        /\ \A i \in 1..Len(versions[id]) :
              VersionRank(versions[id][i].version)
                  <= VersionRank(meta[id].latestPublishedVersion.v)

\* two callers passed the version check on the same latest version, and the one
\* with the lower version called CreateVersion last
C23_Witness ==
    /\ lastOp = Call("Publish", "none")
    /\ publishing = {}
    /\ \E id \in WorkflowIDs :
          /\ Len(versions[id]) = 2
          /\ versions[id][1].version = VersionOrder[3]
          /\ versions[id][2].version = VersionOrder[2]
          /\ meta[id].latestPublishedVersion.v = VersionOrder[2]

\* C27: CanvasToWorkflowSchema ends with a schema or an error on the canvas of
\* every draft, also when sub-workflow nodes refer to workflows whose canvases
\* refer to each other or to themselves, and so every Save on such drafts ends
C27_CompileTerminates ==
    /\ \A id \in DOMAIN draft : DraftSchema(id).status \in {"ok", "err"}
    /\ lastOp # Call("Save", "crash")

\* the draft of a workflow calls the workflow itself as a sub-workflow, its
\* compilation recurses without end, and a Save on it did not return
C27_Witness ==
    /\ lastOp = Call("Save", "crash")
    /\ \E id \in DOMAIN draft :
          /\ DraftSchema(id).status = "diverge"
          /\ \E i \in 1..Len(UnmarshalString(draft[id].canvas).canvas.nodes) :
                LET n == UnmarshalString(draft[id].canvas).canvas.nodes[i]
                IN /\ n.type = NodeTypeSubWorkflow
                   /\ n.workflowID = FormatInt(id)

\* the walk of the reference tree of a workflow of the app, as both operations make it
ReferenceTree(id) ==
    buildWorkflowReference(UnmarshalString(draft[id].canvas).canvas.nodes,
                           MGetDrafts(AppID), {id}, {})

\* C28: CopyWorkflowFromAppToLibrary and DuplicateWorkflowsByAppID end when
\* workflows of the app refer to each other in a cycle or a workflow refers to
\* itself, through sub-workflow nodes or LLM workflow tools: the walk that
\* builds the reference tree ends for every workflow of the app
C28_CopyAndDuplicateTerminate ==
    /\ \A id \in MGetDrafts(AppID) : ReferenceTree(id).status # "diverge"
    /\ lastOp # Call("CopyWorkflowFromAppToLibrary", "crash")
    /\ lastOp # Call("DuplicateWorkflowsByAppID", "crash")

\* two workflows of the app refer to each other, one through an LLM workflow
\* tool, and a duplication of the app did not return
C28_Witness ==
    /\ lastOp = Call("DuplicateWorkflowsByAppID", "crash")
    /\ \E w1, w2 \in MGetDrafts(AppID) :
          /\ w1 # w2
          /\ w2 \in refWfs(draft[w1].canvas, MGetDrafts(AppID))
          /\ w1 \in refWfs(draft[w2].canvas, MGetDrafts(AppID))
          /\ \E n \in AllNodes(UnmarshalString(draft[w1].canvas).canvas.nodes) :
                n.type = NodeTypeLLM
          /\ ReferenceTree(w1).status = "diverge"

\* the workflows of the app a sync starts a worker for
SyncWorkers(relatedWorkflows) == MGetDrafts(AppID) \ DOMAIN relatedWorkflows

\* the workers whose rewriting of the references fails
FailingWorkers(relatedWorkflows) ==
    {w \in SyncWorkers(relatedWorkflows) :
        ~replaceRelatedWorkflowOrExternalResourceInWorkflowNodes(
             UnmarshalString(draft[w].canvas).canvas.nodes, relatedWorkflows).ok}

\* what a sync with a worker for each workflow outside the map leaves when no
\* worker sees the error of another: no draft for a failed rewrite and an error
\* for the call, a new draft for every other worker
WorkersIndependent(relatedWorkflows, out) ==
    /\ FailingWorkers(relatedWorkflows) # {} => out.err # "none"
    /\ \A w \in FailingWorkers(relatedWorkflows) : out.R.draft[w] = draft[w]
    /\ \A w \in SyncWorkers(relatedWorkflows) \ FailingWorkers(relatedWorkflows) :
          out.R.draft[w].commitID \notin commitIDs[w]

\* C29: under every schedule of the workers of SyncRelatedWorkflowResources, a
\* workflow whose references could not be rewritten keeps its draft and the
\* call returns an error, and a worker whose own rewriting succeeded saves its
\* draft: no worker reads or overwrites the error of another
C29_SyncWorkersIndependent ==
    \A relatedWorkflows \in RelatedWorkflowInputs, done \in SUBSET MGetDrafts(AppID) :
       \A order \in Orders(MGetDrafts(AppID)) :
          DOMAIN relatedWorkflows \subseteq MGetDrafts(AppID)
             => WorkersIndependent(relatedWorkflows,
                                   SyncOutcome(AppID, relatedWorkflows, order, done))

\* a sync returned without error and saved a draft of a workflow whose
\* references could not be rewritten: its worker read the result of another
C29_Witness ==
    /\ lastOp = Call("SyncRelatedWorkflowResources", "none")
    /\ \E w \in MGetDrafts(AppID) :
          /\ Cardinality(commitIDs[w]) = 2
          /\ \E str \in CanvasWorkflowIDStrings(draft[w].canvas) : ~ParseInt(str).ok

\* the edges of a list that arrive at a node id
Inbound(id, edges) == {i \in 1..Len(edges) : edges[i].targetNodeID = id}

\* the break and continue nodes among the nodes of a list
Jumps(nodes) == {i \in 1..Len(nodes) : nodes[i].type \in {NodeTypeBreak, NodeTypeContinue}}

\* the pruning as stated: composites first, then the nodes without a use are
\* dropped, a use being an inbound edge or a break or continue child, and with
\* them the edges that leave them
RECURSIVE PrunedAsStated(_, _)
PrunedAsStated(nodes, edges) ==
    LET inner(n) ==
            [n EXCEPT !.blocks = PrunedAsStated(n.blocks, n.edges).nodes,
                      !.edges = PrunedAsStated(n.blocks, n.edges).edges]
        Used(n) ==
            \/ n.id \in {EntryNodeKey, ExitNodeKey}
            \/ Inbound(n.id, edges) # {}
            \/ Jumps(n.blocks) # {}
        removed == {nodes[i].id : i \in {j \in 1..Len(nodes) : ~Used(nodes[j])}}
        FromKept(e) == e.sourceNodeID \notin removed
    IN [nodes |-> SelectSeq([i \in 1..Len(nodes) |-> inner(nodes[i])], Used),
        edges |-> SelectSeq(edges, FromKept)]

\* the pruning by count: a composite with blocks and edges first, with itself as
\* the parent; then the nodes without an inbound edge in the list at hand are
\* dropped, and the edges that leave a dropped node, or that leave the parent
\* when no edge of the list arrives at it and no node of the list is a break or
\* a continue
RECURSIVE PrunedByCount(_, _, _)
PrunedByCount(nodes, edges, parentID) ==
    LET inner(n) ==
            IF Len(n.blocks) > 0 /\ Len(n.edges) > 0
            THEN [n EXCEPT !.blocks = PrunedByCount(n.blocks, n.edges, n.id).nodes,
                           !.edges = PrunedByCount(n.blocks, n.edges, n.id).edges]
            ELSE n
        Used(n) == n.id \in {EntryNodeKey, ExitNodeKey} \/ Inbound(n.id, edges) # {}
        removed == {nodes[i].id : i \in {j \in 1..Len(nodes) : ~Used(nodes[j])}}
        parentUnused ==
            /\ parentID \notin {"", EntryNodeKey, ExitNodeKey}
            /\ Inbound(parentID, edges) = {}
            /\ Jumps(nodes) = {}
        FromKept(e) ==
            /\ e.sourceNodeID \notin removed
            /\ ~(parentUnused /\ e.sourceNodeID = parentID)
    IN [nodes |-> SelectSeq([i \in 1..Len(nodes) |-> inner(nodes[i])], Used),
        edges |-> SelectSeq(edges, FromKept)]

\* C30: PruneIsolatedNodes removes exactly the nodes that have no inbound edge
\* in the given edge list, where Entry and Exit are always kept and a Break or
\* Continue child counts as one use of its parent, and removes exactly the edges
\* whose source is a removed node; the blocks and edges inside each composite
\* are pruned first
C30_PruneExactlyUnused ==
    pruneOutput.done /\ ~pruneOutput.panic =>
        /\ pruneOutput.nodes = PrunedAsStated(pruneInput.nodes, pruneInput.edges).nodes
        /\ pruneOutput.edges = PrunedAsStated(pruneInput.nodes, pruneInput.edges).edges

\* C30, as the code has it: a Break or Continue child is a use of its parent
\* only inside the pruning of the parent's blocks, where it keeps the edges that
\* leave the parent; at its own level a node is removed exactly when no edge of
\* the list arrives at it, Entry and Exit excepted, and the inside of a
\* composite is pruned first only when it has both blocks and edges
C30_PruneByCount ==
    pruneOutput.done /\ ~pruneOutput.panic =>
        /\ pruneOutput.nodes = PrunedByCount(pruneInput.nodes, pruneInput.edges, "").nodes
        /\ pruneOutput.edges = PrunedByCount(pruneInput.nodes, pruneInput.edges, "").edges

\* a was removed with the edge that left it, and the loop was kept with the
\* break inside removed and the edges inside kept
C30_Witness ==
    /\ pruneOutput.done
    /\ ~pruneOutput.panic
    /\ \E i \in 1..Len(pruneInput.nodes) : pruneInput.nodes[i].id = "a"
    /\ \A i \in 1..Len(pruneOutput.nodes) : pruneOutput.nodes[i].id # "a"
    /\ Len(pruneOutput.edges) < Len(pruneInput.edges)
    /\ \E i \in 1..Len(pruneInput.nodes), j \in 1..Len(pruneOutput.nodes) :
          /\ pruneInput.nodes[i].id = "l"
          /\ pruneOutput.nodes[j].id = "l"
          /\ Len(pruneOutput.nodes[j].blocks) < Len(pruneInput.nodes[i].blocks)
          /\ Len(pruneOutput.nodes[j].edges) = Len(pruneInput.nodes[i].edges)

\* the nodes of a list other than entry and exit at which no edge of a list arrives
Isolated(nodes, edges) ==
    {i \in 1..Len(nodes) : /\ nodes[i].id \notin {EntryNodeKey, ExitNodeKey}
                           /\ Inbound(nodes[i].id, edges) = {}}

\* C31: in the output of PruneIsolatedNodes every node other than Entry and Exit
\* has an inbound edge among the output edges, and PruneIsolatedNodes applied to
\* its own output returns that output, also when a removed node was the only
\* predecessor of another node
C31_PruneIsFixpoint ==
    pruneOutput.done /\ ~pruneOutput.panic =>
        LET again == PruneIsolatedNodes(pruneOutput.nodes, pruneOutput.edges, "")
        IN /\ Isolated(pruneOutput.nodes, pruneOutput.edges) = {}
           /\ ~again.panic
           /\ again.nodes = pruneOutput.nodes
           /\ again.edges = pruneOutput.edges

\* a had no inbound edge and was the only predecessor of b: a was removed with
\* its edge to b, b was kept without an inbound edge, and a second pruning
\* removes b
C31_Witness ==
    /\ pruneOutput.done
    /\ ~pruneOutput.panic
    /\ Inbound("a", pruneInput.edges) = {}
    /\ \E i \in 1..Len(pruneInput.edges) :
          pruneInput.edges[i].sourceNodeID = "a" /\ pruneInput.edges[i].targetNodeID = "b"
    /\ \E i \in Isolated(pruneOutput.nodes, pruneOutput.edges) : pruneOutput.nodes[i].id = "b"
    /\ \A i \in 1..Len(PruneIsolatedNodes(pruneOutput.nodes, pruneOutput.edges, "").nodes) :
          PruneIsolatedNodes(pruneOutput.nodes, pruneOutput.edges, "").nodes[i].id # "b"

\* the connections of a schema between two node keys, in either direction
ConnectionsBetween(sc, a, b) ==
    {i \in 1..Len(sc.connections) :
        {sc.connections[i].fromNode, sc.connections[i].toNode} = {a, b}}

\* the schema holds the expansion of the node n in batch mode as stated
BatchExpanded(sc, n) ==
    LET inner == GenerateNodeIDForBatchMode(n.id)
        parents == {i \in 1..Len(sc.nodes) : sc.nodes[i].key = n.id}
        inners == {i \in 1..Len(sc.nodes) : sc.nodes[i].key = inner}
    IN /\ Cardinality(parents) = 1
       /\ \A i \in parents : sc.nodes[i].type = NodeTypeBatch
       /\ Cardinality(inners) = 1
       /\ \A i \in inners :
             /\ sc.nodes[i].type = n.type
             /\ sc.nodes[i].inputs = n.inputParameters
             /\ sc.nodes[i].exceptionConfigs = toExceptionConfig(n, n.type).conf
       /\ <<inner, n.id>> \in sc.hierarchy
       /\ sc.generatedNodes = <<inner>>
       /\ Cardinality(ConnectionsBetween(sc, n.id, inner)) = 2
       /\ \E i, j \in ConnectionsBetween(sc, n.id, inner) :
             /\ sc.connections[i].fromNode = n.id /\ sc.connections[i].toNode = inner
             /\ sc.connections[j].fromNode = inner /\ sc.connections[j].toNode = n.id
       /\ Len(parseBatchMode(n).node.outputs) = 1
       /\ parseBatchMode(n).node.outputVariable.type = VariableTypeList
       /\ parseBatchMode(n).node.outputRefs = <<inner>>

\* the single output of a node in batch mode is a list of objects
BatchOutputAccepted(n) ==
    /\ Len(n.outputs) = 1
    /\ n.outputVariable.type = VariableTypeList
    /\ n.outputVariable.elementType = VariableTypeObject

\* C32: the compiled schema of a draft canvas holds, for every node of the
\* canvas in batch mode, at whatever depth and with or without edges, the batch
\* parent, the inner node, the hierarchy entry, the generated node and the two
\* connections; batch mode with an output that is not one list of objects makes
\* the compilation fail
C32_BatchExpandedAnyNode ==
    \A id \in WorkflowIDs :
        id \in DOMAIN draft /\ UnmarshalString(draft[id].canvas).ok =>
            \A n \in AllNodes(UnmarshalString(draft[id].canvas).canvas.nodes) :
                n.nodeBatchInfo.batchEnable =>
                    /\ ~BatchOutputAccepted(n) => DraftSchema(id).status = "err"
                    /\ DraftSchema(id).status = "ok" => BatchExpanded(DraftSchema(id), n)

\* C32: the same for the nodes in batch mode that CanvasToWorkflowSchema
\* converts: the nodes of the canvas itself, no blocks, that pruning keeps
C32_BatchExpanded ==
    \A id \in WorkflowIDs :
        id \in DOMAIN draft /\ UnmarshalString(draft[id].canvas).ok =>
            \A n \in SeqToSet(ConvertedNodes(draft[id].canvas)) :
                n.nodeBatchInfo.batchEnable =>
                    /\ ~BatchOutputAccepted(n) => DraftSchema(id).status = "err"
                    /\ DraftSchema(id).status = "ok" => BatchExpanded(DraftSchema(id), n)

\* a draft with a node in batch mode with error handling settings compiled to
\* the batch parent and the inner node
C32_Witness ==
    \E id \in WorkflowIDs :
        /\ id \in DOMAIN draft
        /\ UnmarshalString(draft[id].canvas).ok
        /\ DraftSchema(id).status = "ok"
        /\ \E n \in SeqToSet(ConvertedNodes(draft[id].canvas)) :
              /\ n.nodeBatchInfo.batchEnable
              /\ n.settingOnError.has
              /\ BatchExpanded(DraftSchema(id), n)

\* the edges CanvasToWorkflowSchema compiles for a converted node: the edges of
\* the node, or those of its batch parent when it is in batch mode
CompiledNodeEdges(n) == IF parseBatchMode(n).enabled THEN parseBatchMode(n).node.edges ELSE n.edges

\* the target every connection of the schema of a canvas has to have, in the
\* order of the connections: per converted node the parent for each break or
\* continue block and the target of each of its edges, then the targets of the
\* canvas edges; withSourcePort tells whether only edges with a source port are
\* sent to END
RECURSIVE ConnectionTargets(_, _, _)
ConnectionTargets(nodes, edges, withSourcePort) ==
    LET target(e) ==
            IF /\ e.targetPortID \in CompositeInlineInputPorts
               /\ (withSourcePort => Len(e.sourcePortID) > 0)
            THEN END ELSE e.targetNodeID
        targets(es) == [k \in 1..Len(es) |-> target(es[k])]
        jumps(n) == [k \in 1..Len(jumpConnections(n)) |-> n.id]
    IN IF Len(nodes) = 0 THEN targets(edges)
       ELSE jumps(Head(nodes)) \o targets(CompiledNodeEdges(Head(nodes)))
                \o ConnectionTargets(Tail(nodes), edges, withSourcePort)

\* the connections of the compiled draft of every workflow have these targets
TargetsCompiled(withSourcePort) ==
    \A id \in WorkflowIDs :
        /\ id \in DOMAIN draft
        /\ UnmarshalString(draft[id].canvas).ok
        /\ DraftSchema(id).status = "ok"
        => LET c == UnmarshalString(draft[id].canvas).canvas
               pruned == PruneIsolatedNodes(c.nodes, c.edges, "")
           IN [i \in 1..Len(DraftSchema(id).connections) |-> DraftSchema(id).connections[i].toNode]
                  = ConnectionTargets(pruned.nodes, pruned.edges, withSourcePort)

RECURSIVE RawConnections(_, _)
RawConnections(nodes, edges) ==
    LET connections(es) == [k \in 1..Len(es) |-> EdgeToConnection(es[k])]
    IN IF Len(nodes) = 0 THEN connections(edges)
       ELSE jumpConnections(Head(nodes)) \o connections(CompiledNodeEdges(Head(nodes)))
                \o RawConnections(Tail(nodes), edges)

\* a connection is normalised as stated: the same nodes, no port for the empty
\* port and the cleared ports, the rules for the ports of a selector (its ports
\* that the rules do not name are left open), the same port otherwise
NormalizedAsStated(conn, out, nodeType, cleared) ==
    LET trueN == ParseInt(SubSeq(conn.fromPort, Len(PortTruePrefix) + 1, Len(conn.fromPort)))
    IN /\ out.fromNode = conn.fromNode
       /\ out.toNode = conn.toNode
       /\ IF ~conn.hasPort \/ Len(conn.fromPort) = 0 \/ conn.fromPort \in cleared
          THEN ~out.hasPort
          ELSE IF nodeType # NodeTypeSelector THEN out = conn
          ELSE IF conn.fromPort = PortTrue
          THEN out.hasPort /\ out.fromPort = PortBranchPrefix \o FormatInt(0)
          ELSE IF conn.fromPort = PortFalse THEN out.hasPort /\ out.fromPort = PortDefault
          ELSE IF HasPrefix(conn.fromPort, PortTruePrefix) /\ trueN.ok
          THEN out.hasPort /\ out.fromPort = PortBranchPrefix \o FormatInt(trueN.val)
          ELSE TRUE

\* the connections of the compiled draft of every workflow are those
\* CanvasToWorkflowSchema collected, normalised as stated
DraftsNormalized(cleared) ==
    \A id \in WorkflowIDs :
        /\ id \in DOMAIN draft
        /\ UnmarshalString(draft[id].canvas).ok
        /\ DraftSchema(id).status = "ok"
        => LET c == UnmarshalString(draft[id].canvas).canvas
               pruned == PruneIsolatedNodes(c.nodes, c.edges, "")
               raw == RawConnections(pruned.nodes, pruned.edges)
               types == nodeTypeMap(pruned.nodes)
               out == DraftSchema(id).connections
           IN /\ out = normalizePorts(raw, types).connections
              /\ Len(out) = Len(raw)
              /\ \A i \in 1..Len(raw) :
                    NormalizedAsStated(raw[i], out[i],
                        IF raw[i].fromNode \in DOMAIN types THEN types[raw[i].fromNode] ELSE "",
                        cleared)

\* loop-function-inline-output and batch-function-inline-output
InlineOutputPorts == {p \in CompositeOutputPorts : Len(p) > Len(BatchInlineInputPort)}

\* C34: normalizePorts maps the selector ports true, false and true_N to
\* branch_0, default and branch_N, sets an empty port and the loop and batch
\* inline output ports to no port, leaves every port of another node as it is,
\* and keeps number, order, from_node and to_node of the connections
C34_NormalizePortsInline == DraftsNormalized(InlineOutputPorts)

\* C34: the same with loop-output and batch-output among the ports set to no port
C34_NormalizePorts == DraftsNormalized(CompositeOutputPorts)

\* a selector with edges on true, true_1 and false compiled to the ports
\* branch_0, branch_1 and default
C34_Witness ==
    \E id \in WorkflowIDs :
        /\ id \in DOMAIN draft
        /\ UnmarshalString(draft[id].canvas).ok
        /\ DraftSchema(id).status = "ok"
        /\ LET c == UnmarshalString(draft[id].canvas).canvas
               raw == RawConnections(ConvertedNodes(draft[id].canvas),
                                     PruneIsolatedNodes(c.nodes, c.edges, "").edges)
               out == DraftSchema(id).connections
               from(conns) == {conns[i].fromPort : i \in {j \in 1..Len(conns) :
                                  conns[j].hasPort /\ conns[j].fromNode = "c1"}}
           IN /\ from(raw) = {PortTrue, PortTruePrefix \o FormatInt(1), PortFalse}
              /\ from(out) = {PortBranchPrefix \o FormatInt(0), PortBranchPrefix \o FormatInt(1),
                              PortDefault}

\* the nodes of a canvas that refer to a workflow, with the position of the
\* reference in the node
Referrers(canvasStr) ==
    {<<n, 0>> : n \in {m \in AllNodes(canvasStr.nodes) : m.type = NodeTypeSubWorkflow}}
    \cup UNION {{<<n, k>> : k \in 1..Len(n.workflowList)} :
                   n \in {m \in AllNodes(canvasStr.nodes) : m.type = NodeTypeLLM}}

\* some node of the canvas refers to a workflow by an id that is no number
NonNumericRef(canvasStr) ==
    \E r \in Referrers(canvasStr) :
        ~ParseInt(IF r[2] = 0 THEN r[1].workflowID ELSE r[1].workflowList[r[2]].workflowID).ok

\* C35: canvasToRefs of a workflow id and its draft canvas is the set of one
\* SubWorkflow edge per workflow of a sub-workflow node and one Tool edge per
\* workflow tool of an LLM node, over the nodes at every depth; the empty set
\* for a canvas of entry and exit only; an error and no set when a referenced
\* id is no number
C35_CanvasToRefs ==
    \A id \in DOMAIN draft :
        UnmarshalString(draft[id].canvas).ok =>
            LET r == canvasToRefs(id, draft[id].canvas)
            IN /\ NonNumericRef(draft[id].canvas) => ~r.ok /\ r.refs = {}
               /\ ~NonNumericRef(draft[id].canvas) =>
                     r.ok /\ r.refs = CanvasRefs(id, draft[id].canvas)
               /\ draft[id].canvas = PlainCanvas => r.ok /\ r.refs = {}

\* Publish wrote the references of a canvas whose four references from three
\* depths collapse to two edges, and another draft refers to an id that is no
\* number
C35_Witness ==
    /\ \E id \in DOMAIN draft :
          /\ Len(versions[id]) > 0
          /\ versions[id][Len(versions[id])].canvas = draft[id].canvas
          /\ versions[id][Len(versions[id])].refs = canvasToRefs(id, draft[id].canvas).refs
          /\ Cardinality(Referrers(draft[id].canvas)) = 4
          /\ Cardinality(canvasToRefs(id, draft[id].canvas).refs) = 2
    /\ \E id \in DOMAIN draft :
          NonNumericRef(draft[id].canvas) /\ ~canvasToRefs(id, draft[id].canvas).ok

\* the nodes of a canvas whose exception settings CanvasToWorkflowSchema
\* compiles: the converted nodes and their blocks, of the types that are compiled
CompiledNodes(canvasStr) ==
    {n \in AllNodes(ConvertedNodes(canvasStr)) :
        n.type \in AdaptedNodeTypes \cup {NodeTypeSubWorkflow}}

\* the key of the node schema that carries the exception settings of a node:
\* that of the inner node when the node is expanded for batch mode
ExceptionKey(canvasStr, n) ==
    IF n \in SeqToSet(ConvertedNodes(canvasStr)) /\ n.nodeBatchInfo.batchEnable
    THEN GenerateNodeIDForBatchMode(n.id) ELSE n.id

\* the exception config of a node schema is the stated one for the settings of the node
ExceptionAsStated(n, conf) ==
    IF ~n.settingOnError.has
    THEN IF DefaultTimeoutMS(n.type) = 0 THEN ~conf.has
         ELSE conf.has /\ conf.timeoutMS = DefaultTimeoutMS(n.type)
    ELSE /\ conf.has
         /\ /\ n.settingOnError.processType = 0
            /\ Len(n.settingOnError.dataOnErr) > 0
            /\ n.settingOnError.switch
            => conf.processType = ErrorProcessTypeReturnDefaultData

\* C36: compiling a draft fails when a compiled node has process_type
\* ReturnDefaultData and no data_on_err; in a compiled schema a node with
\* process_type unset, data_on_err and switch on has process_type
\* ReturnDefaultData, and a node without exception settings has the default
\* timeout of its type, or no exception config when that default is 0
C36_ExceptionConfig ==
    \A id \in DOMAIN draft :
        UnmarshalString(draft[id].canvas).ok =>
            \A n \in CompiledNodes(draft[id].canvas) :
                /\ /\ n.settingOnError.has
                   /\ n.settingOnError.processType = ErrorProcessTypeReturnDefaultData
                   /\ Len(n.settingOnError.dataOnErr) = 0
                   => DraftSchema(id).status = "err"
                /\ DraftSchema(id).status = "ok" =>
                      \E i \in 1..Len(DraftSchema(id).nodes) :
                          /\ DraftSchema(id).nodes[i].key = ExceptionKey(draft[id].canvas, n)
                          /\ ExceptionAsStated(n, DraftSchema(id).nodes[i].exceptionConfigs)

\* a compiled draft whose code node has data_on_err, switch on and no
\* process_type: its schema has process_type ReturnDefaultData, the entry node
\* has no exception config
C36_Witness ==
    \E id \in DOMAIN draft :
        /\ UnmarshalString(draft[id].canvas).ok
        /\ DraftSchema(id).status = "ok"
        /\ \E n \in CompiledNodes(draft[id].canvas) :
              /\ n.settingOnError.has
              /\ n.settingOnError.processType = 0
              /\ n.settingOnError.switch
              /\ \E i \in 1..Len(DraftSchema(id).nodes) :
                    /\ DraftSchema(id).nodes[i].key = n.id
                    /\ DraftSchema(id).nodes[i].exceptionConfigs.has
                    /\ DraftSchema(id).nodes[i].exceptionConfigs.processType
                           = ErrorProcessTypeReturnDefaultData
        /\ \E i \in 1..Len(DraftSchema(id).nodes) :
              /\ DraftSchema(id).nodes[i].key = EntryNodeKey
              /\ ~DraftSchema(id).nodes[i].exceptionConfigs.has

\* C37: no version record and no latest published version carries a version
\* string that is not of the form vA.B.C, a first publish included
C37_NoMalformedVersion ==
    \A id \in WorkflowIDs :
        /\ meta[id].latestPublishedVersion.has =>
              parseVersion(meta[id].latestPublishedVersion.v).ok
        /\ \A i \in 1..Len(versions[id]) : parseVersion(versions[id][i].version).ok

\* the first publish of a workflow was called with a malformed version string
\* and returned no error
C37_Witness ==
    /\ lastOp = Call("Publish", "none")
    /\ \E id \in WorkflowIDs :
          /\ Len(versions[id]) = 1
          /\ ~parseVersion(versions[id][1].version).ok
          /\ meta[id].latestPublishedVersion = [has |-> TRUE, v |-> versions[id][1].version]

\* a sync generated a commit id for every workflow it has to rewrite, and every
\* draft it wrote carries a commit id of its own that no draft carried before
CommitIDsSuffice(relatedWorkflows, out) ==
    LET toRewrite == MGetDrafts(AppID) \ DOMAIN relatedWorkflows
        written == {w \in MGetDrafts(AppID) : out.R.draft[w] # draft[w]}
    IN /\ out.err # "panic"
       /\ out.usesIDs >= Cardinality(toRewrite)
       /\ \A w \in written :
             /\ \A v \in DOMAIN commitIDs : out.R.draft[w].commitID \notin commitIDs[v]
             /\ \A v \in written \ {w} : out.R.draft[v].commitID # out.R.draft[w].commitID

\* C38: SyncRelatedWorkflowResources generates at least as many commit ids as
\* it has workflows to rewrite and gives each of them an id of its own, for
\* every map of related workflows, ids that are no workflows of the app included
C38_SyncCommitIDsSuffice ==
    \A relatedWorkflows \in RelatedWorkflowInputs, done \in SUBSET MGetDrafts(AppID) :
       \A order \in Orders(MGetDrafts(AppID)) :
          CommitIDsSuffice(relatedWorkflows, SyncOutcome(AppID, relatedWorkflows, order, done))

\* a sync gave one workflow of the app a new commit id and ran out of commit ids
\* at the next one
C38_Witness ==
    /\ lastOp = Call("SyncRelatedWorkflowResources", "panic")
    /\ \E w \in MGetDrafts(AppID) : Cardinality(commitIDs[w]) = 2
    /\ \E w \in MGetDrafts(AppID) : Cardinality(commitIDs[w]) = 1

\* C39: in every reachable state every workflow meta has a draft: a Create
\* whose Save of the initial canvas failed left no workflow meta
C39_CreateAllOrNothing == \A id \in WorkflowIDs : id \in DOMAIN draft

\* a Create whose Save failed in the repository returned the error and left a
\* workflow meta without a draft
C39_Witness ==
    /\ lastOp = Call("Create", "OperationFail")
    /\ \E id \in WorkflowIDs : id \notin DOMAIN draft

====
